---- MODULE Spec2Model ----
\* State-machine model of the Instagram download core:
\* UrlService, CacheService, RateLimitManager (unnamed/part_000) and
\* YtDlpStrategy, GalleryDlStrategy, DownloadOrchestrator
\* (src/strategies/GalleryDlStrategy.js).
\*
\* Every `await` of the JavaScript code is a point where other calls may run:
\* an action below is the code between two awaits of one call.
EXTENDS Integers, Sequences, FiniteSets, TLC

\* ---------------------------------------------------------------- bounds
\* Number of download() calls made in one behaviour.
MaxCalls == 2
\* The orchestration clock stops after this many steps of baseBackoffMs.
MaxTicks == 2
\* Failures on record, summed over the domains, in the RateLimitManager unit
\* specification.
MaxFailures == 7
\* The clock of the RateLimitManager unit specification stops after this many
\* steps of baseBackoffMs.
MaxUnitTicks == 31

\* Substrings per error text in the classifier specification.
MaxFragments == 2

\* The longest output, in lines, given to the line parsers on their own.
MaxLines == 3

\* The values of Math.random() tried: n / RandomSteps for n in 0..RandomSteps-1.
RandomSteps == 8

\* ---------------------------------------------------- program constants
baseBackoffMs == 1000
maxBackoffMs == 30000
defaultTtl == 1728000

CallIds == 1..MaxCalls

\* The absent value (JavaScript null / undefined), as a record so that it can
\* be compared with the records it stands in for.
Null == [kind |-> "null"]

Min(a, b) == IF a < b THEN a ELSE b

\* ------------------------------------------------------------ UrlService
\* An identifier is modelled by the parts the regular expressions look at:
\* scheme, host and the path segments between slashes.
Url(scheme, host, segs) == [scheme |-> scheme, host |-> host, segs |-> segs]

PostABC   == Url("https", "www.instagram.com", <<"p", "ABC123">>)
ReelABC   == Url("https", "instagram.com", <<"reel", "ABC123">>)
UpperHost == Url("https", "INSTAGRAM.COM", <<"p", "XYZ789">>)
YouTube   == Url("https", "youtube.com", <<"watch">>)
NotUrl    == Url("", "", <<>>)

RawIds == {PostABC, ReelABC, UpperHost, YouTube, NotUrl}

\* String.prototype.toLowerCase on the tokens used here (the /i flag).
ToLower(s) ==
    CASE s = "INSTAGRAM.COM" -> "instagram.com"
      [] s = "HTTPS" -> "https"
      [] s = "P" -> "p"
      [] s = "STORIES" -> "stories"
      [] s = "Authentication" -> "authentication"
      [] s = "Login Required" -> "login required"
      [] s = "Not Found" -> "not found"
      [] s = "Timeout" -> "timeout"
      [] OTHER -> s

\* The longest prefix of a segment made of [A-Za-z0-9_-], the capture group of
\* normalizeUrl's reel pattern.
IdPrefix(seg) ==
    CASE seg = "AB.C" -> "AB"
      [] seg = "" -> ""
      [] OTHER -> seg

\* A value that is not a string, and the test typeof url === 'string'.
NotAString == [kind |-> "number"]

IsString(x) == "segs" \in DOMAIN x

\* An identifier with white space around it, and String.prototype.trim.
Padded(url) == url @@ [pad |-> TRUE]

Trim(url) == [f \in DOMAIN url \ {"pad"} |-> url[f]]

\* An isValidInstagramUrl that does not look at the host.
isValidInstagramUrl_AnyHost(url) ==
    /\ IsString(url)
    /\ ToLower(url.scheme) \in {"http", "https"}
    /\ Len(url.segs) >= 2
    /\ ToLower(url.segs[1]) \in {"p", "reel", "reels", "stories"}
    /\ url.segs[2] # ""

\* typeof, trim, and INSTAGRAM_URL_REGEX, anchored at the start,
\* case-insensitive.
isValidInstagramUrl(url) ==
    /\ IsString(url)
    /\ ToLower(Trim(url).scheme) \in {"http", "https"}
    /\ ToLower(Trim(url).host) \in {"instagram.com", "www.instagram.com"}
    /\ Len(Trim(url).segs) >= 2
    /\ ToLower(Trim(url).segs[1]) \in {"p", "reel", "reels", "stories"}
    /\ Trim(url).segs[2] # ""

\* Segment i is one of `names` (case-insensitive) and is followed by a segment
\* that starts with a capturable character.
MatchAt(url, names, i) ==
    /\ i < Len(url.segs)
    /\ ToLower(url.segs[i]) \in names
    /\ IdPrefix(url.segs[i + 1]) # ""

FirstMatch(url, names) ==
    IF \E i \in 1..Len(url.segs) : MatchAt(url, names, i)
    THEN CHOOSE i \in 1..Len(url.segs) :
            /\ MatchAt(url, names, i)
            /\ \A j \in 1..(i - 1) : ~MatchAt(url, names, j)
    ELSE 0

normalizeUrl(url) ==
    LET trimmed == Trim(url)
        i == FirstMatch(trimmed, {"reel", "reels"})
    IN  IF i # 0
        THEN Url("https", "www.instagram.com", <<"p", IdPrefix(trimmed.segs[i + 1])>>)
        ELSE trimmed

\* The first 24 bytes of the identifier (32 base64 characters): scheme and
\* host, the path being cut off.
Base64Prefix(url) == <<url.scheme, url.host>>

extractCacheKey(url) ==
    LET p == FirstMatch(url, {"p"})
        r == FirstMatch(url, {"reel", "reels"})
        s == FirstMatch(url, {"stories"})
    IN  IF p # 0 THEN <<"post", url.segs[p + 1]>>
        ELSE IF r # 0 THEN <<"post", url.segs[r + 1]>>
        ELSE IF s # 0 /\ s + 2 <= Len(url.segs) /\ url.segs[s + 2] # ""
             THEN <<"story", url.segs[s + 1], url.segs[s + 2]>>
        ELSE <<"url">> \o Base64Prefix(url)

\* getUrlType: case-sensitive substring tests, '/p/' first, then '/reel' (the
\* start of any segment), then '/stories/'.
StartsWithReel(seg) == seg \in {"reel", "reels", "reelsdaily"}

getUrlType(url) ==
    IF \E i \in 1..Len(url.segs) : url.segs[i] = "p" THEN "post"
    ELSE IF \E i \in 1..Len(url.segs) : StartsWithReel(url.segs[i]) THEN "reel"
    ELSE IF \E i \in 1..Len(url.segs) : url.segs[i] = "stories" THEN "story"
    ELSE "unknown"

CacheKeyOf(raw) == extractCacheKey(normalizeUrl(raw))

Keys == {CacheKeyOf(r) : r \in {x \in RawIds : isValidInstagramUrl(x)}}

\* canHandle of both tools: url.includes('instagram.com'), case-sensitive.
canHandle(url) == url.host \in {"instagram.com", "www.instagram.com"}

\* ------------------------------------------------- error classification
\* An error thrown by execFile: the fragments its message and its stderr text
\* contain, in the letter case in which they occur.
Err(message, stderr) == [kind |-> "error", message |-> message, stderr |-> stderr]

ErrRate     == Err({"429"}, {"429"})
ErrAuthCaps == Err({"Authentication"}, {"Authentication"})

ErrInputs == {ErrRate, ErrAuthCaps}

\* The error of a process that execFile killed at its timeout: `killed` is set
\* and the message is the command line followed by whatever the process had
\* written to stderr by then.
Killed(stderr) == Err(stderr, stderr) @@ [killed |-> TRUE]

TimeoutErrors == {Killed({}), Killed({"timeout"})}

LowerSet(S) == {ToLower(f) : f \in S}

\* `${message} ${stderr}` of the two lower-cased texts.
Combined(error) == LowerSet(error.message) \cup LowerSet(error.stderr)

GalleryDl_categorizeError(error) ==
    IF error = Null THEN "unknown"
    ELSE LET combined == Combined(error)
         IN  IF "rate-limit" \in combined \/ "429" \in combined THEN "rate_limit"
             ELSE IF "login required" \in combined \/ "authentication" \in combined
                  THEN "authentication"
             ELSE IF "not found" \in combined \/ "404" \in combined THEN "not_found"
             ELSE IF "timeout" \in combined THEN "timeout"
             ELSE "unknown"

YtDlp_categorizeError(error) ==
    IF error = Null THEN "unknown"
    ELSE LET combined == Combined(error)
         IN  IF "rate-limit" \in combined \/ "429" \in combined THEN "rate_limit"
             ELSE IF "login required" \in combined \/ "authentication" \in combined
                  THEN "authentication"
             ELSE IF "not available" \in combined \/ "404" \in combined THEN "not_found"
             ELSE IF "timeout" \in combined THEN "timeout"
             ELSE "unknown"

categorizeError(tool, error) ==
    IF tool = "yt-dlp" THEN YtDlp_categorizeError(error)
    ELSE GalleryDl_categorizeError(error)

\* _createErrorResponse: classification of the message text as it is, with no
\* lower-casing and without the stderr text.
_createErrorResponse(message) ==
    IF "Invalid Instagram URL" \in message
    THEN [success |-> FALSE, category |-> "invalid_url", statusCode |-> 400, details |-> message]
    ELSE IF "rate-limit" \in message \/ "429" \in message
    THEN [success |-> FALSE, category |-> "rate_limit", statusCode |-> 429, details |-> message]
    ELSE IF "authentication" \in message \/ "login required" \in message
    THEN [success |-> FALSE, category |-> "authentication", statusCode |-> 403, details |-> message]
    ELSE IF "not found" \in message \/ "404" \in message
    THEN [success |-> FALSE, category |-> "not_found", statusCode |-> 404, details |-> message]
    ELSE IF "timeout" \in message
    THEN [success |-> FALSE, category |-> "timeout", statusCode |-> 408, details |-> message]
    ELSE [success |-> FALSE, category |-> "unknown", statusCode |-> 500, details |-> message]

\* A validation error worded differently from what _createErrorResponse tests.
InvalidUrlMessage_Reworded == {"Invalid URL"}

InvalidUrlMessage == {"Invalid Instagram URL"}

\* ------------------------------------------------------ tools, strategies
ToolNames == {"yt-dlp", "gallery-dl"}

\* The two priorities exchanged.
getPriority_Swapped(tool) == IF tool = "yt-dlp" THEN 2 ELSE 1

getPriority(tool) == IF tool = "yt-dlp" THEN 1 ELSE 2

\* this.strategies of the orchestrator: the two tools sorted by getPriority.
orchestratorStrategies ==
    CHOOSE s \in {<<a, b>> \in ToolNames \X ToolNames : a # b} :
        getPriority(s[1]) <= getPriority(s[2])

Strategies(tool) ==
    IF tool = "yt-dlp"
    THEN <<"fresh_browser_cookies", "file_cookies_enhanced", "firefox_fallback", "embed_only">>
    ELSE <<"direct_url_extraction", "json_metadata_extraction", "simple_download">>

\* Output lines: an http(s) URL, a JSON record with a url field, other text.
UrlLine(u)  == [kind |-> "url", url |-> u]
JsonLine(u) == [kind |-> "json", url |-> u]

U1  == "https://cdn.example/video.mp4"
U2  == "https://scontent.cdninstagram.com/2.mp4"
NoUrl == ""

Stdouts == { <<>>,
             <<UrlLine(U1), UrlLine(U2)>>,
             <<JsonLine(U1)>> }

_isVideoUrl(u) == u \in {U1, U2}

\* An _extractDownloadUrl that takes the first http(s) line.
_extractDownloadUrl_First(stdout) ==
    LET IsHttp(l) == l.kind = "url"
        urls == SelectSeq(stdout, IsHttp)
    IN  IF Len(urls) > 0 THEN urls[1].url ELSE NoUrl

\* YtDlpStrategy._extractDownloadUrl: the last http(s) line.
_extractDownloadUrl(stdout) ==
    LET IsHttp(l) == l.kind = "url"
        urls == SelectSeq(stdout, IsHttp)
    IN  IF Len(urls) > 0 THEN urls[Len(urls)].url ELSE NoUrl

\* GalleryDlStrategy._extractDirectUrl: the first http(s) line that looks
\* like a video.
_extractDirectUrl(stdout) ==
    LET IsVideoLine(l) == l.kind = "url" /\ _isVideoUrl(l.url)
        urls == SelectSeq(stdout, IsVideoLine)
    IN  IF Len(urls) > 0 THEN urls[1].url ELSE NoUrl

\* GalleryDlStrategy._extractUrlFromJson: the first JSON line whose url looks
\* like a video; lines that are not JSON are skipped.
_extractUrlFromJson(stdout) ==
    LET IsVideoJson(l) == l.kind = "json" /\ l.url # NoUrl /\ _isVideoUrl(l.url)
        recs == SelectSeq(stdout, IsVideoJson)
    IN  IF Len(recs) > 0 THEN recs[1].url ELSE NoUrl

ParseOutput(tool, strategyName, stdout) ==
    IF tool = "yt-dlp" THEN _extractDownloadUrl(stdout)
    ELSE IF strategyName = "json_metadata_extraction" THEN _extractUrlFromJson(stdout)
    ELSE _extractDirectUrl(stdout)

\* What one external invocation of the two tools can end in: the process
\* exits with an output, or execFile fails with an error (non-zero exit,
\* timeout), which execute catches.
Outcomes ==
    {[kind |-> "exit", stdout |-> s] : s \in Stdouts}
    \cup {[kind |-> "error", err |-> e] : e \in ErrInputs}

\* An exception escaping execute. The two tools catch every error of their
\* strategies; DownloadStrategy.execute's contract allows a tool that throws,
\* and the orchestrator has a catch branch for it.
Thrown == [kind |-> "throw"]

\* ------------------------------------------------------------------ state
VARIABLES
    now,             \* Date.now(), in ms
    domainFailures,  \* RateLimitManager.domainFailures: domain -> entry or Null
    activeRequests,  \* RateLimitManager.activeRequests: key -> owning call, 0 = no entry
    cache,           \* the key-value store: key -> stored text or Null
    metrics,         \* DownloadOrchestrator.metrics
    calls,           \* each download() call: its position and its local variables
    probe            \* a function applied on its own: its input and its result

vars == <<now, domainFailures, activeRequests, cache, metrics, calls, probe>>

Domains == {"instagram.com", "test.com"}

\* The state as one value, so that the code's statements compose as functions.
World ==
    [now |-> now, domainFailures |-> domainFailures, activeRequests |-> activeRequests,
     cache |-> cache, metrics |-> metrics, calls |-> calls]

Commit(w) ==
    /\ now' = w.now
    /\ domainFailures' = w.domainFailures
    /\ activeRequests' = w.activeRequests
    /\ cache' = w.cache
    /\ metrics' = w.metrics
    /\ calls' = w.calls
    /\ probe' = probe

IdleCall ==
    [pc |-> "idle", raw |-> Null, looked |-> Null, getFault |-> FALSE,
     setFault |-> FALSE,
     doneAtStart |-> {}, role |-> "none", joined |-> 0, peers |-> {}, wake |-> 0,
     asleepSince |-> 0, tool |-> 0,
     toolLog |-> <<>>, strat |-> 0, lastError |-> Null, lastResult |-> Null,
     work |-> Null, result |-> Null, storeOps |-> 0, invocations |-> 0]

InitMetrics ==
    [totalRequests |-> 0, cacheHits |-> 0, successfulDownloads |-> 0,
     failedDownloads |-> 0, strategiesUsed |-> [t \in ToolNames |-> Null]]

Init ==
    /\ now = 0
    /\ domainFailures = [d \in Domains |-> Null]
    /\ activeRequests = [k \in Keys |-> 0]
    /\ cache = [k \in Keys |-> Null]
    /\ metrics = InitMetrics
    /\ calls = [c \in CallIds |-> IdleCall]
    /\ probe = Null

\* ------------------------------------------------------- RateLimitManager
\* The window without the cap.
expectedBackoff_NoCap(k) == baseBackoffMs * 2 ^ (k - 1)

expectedBackoff(k) == Min(baseBackoffMs * 2 ^ (k - 1), maxBackoffMs)

getBackoffDelay(w, domain) ==
    LET failure == w.domainFailures[domain]
    IN  IF failure = Null THEN 0
        ELSE LET timeSinceLastFailure == w.now - failure.lastFailure
                 backoff == expectedBackoff(failure.consecutiveFailures)
             IN  IF timeSinceLastFailure < backoff
                 THEN backoff - timeSinceLastFailure
                 ELSE 0

\* A recordSuccess that takes one failure off instead of deleting the entry.
recordSuccess_Decrement(w, domain) ==
    LET old == w.domainFailures[domain]
    IN  IF old = Null \/ old.consecutiveFailures = 1
        THEN [w EXCEPT !.domainFailures[domain] = Null]
        ELSE [w EXCEPT !.domainFailures[domain].consecutiveFailures = @ - 1]

\* A recordSuccess that keeps the entry and sets its count back to one.
recordSuccess_BackToOne(w, domain) ==
    IF w.domainFailures[domain] = Null THEN w
    ELSE [w EXCEPT !.domainFailures[domain].consecutiveFailures = 1]

recordSuccess(w, domain) == [w EXCEPT !.domainFailures[domain] = Null]

\* A recordFailure that keeps one count for all domains.
recordFailure_OneCount(w, domain, errorType) ==
    LET old == w.domainFailures[domain]
        k == IF old = Null THEN 0 ELSE old.consecutiveFailures
    IN  [w EXCEPT !.domainFailures =
            [d \in DOMAIN @ |->
                [consecutiveFailures |-> k + 1, lastFailure |-> w.now, errorType |-> errorType]]]

recordFailure(w, domain, errorType) ==
    LET old == w.domainFailures[domain]
        k == IF old = Null THEN 0 ELSE old.consecutiveFailures
    IN  [w EXCEPT !.domainFailures[domain] =
            [consecutiveFailures |-> k + 1, lastFailure |-> w.now, errorType |-> errorType]]

\* preventStampede without its test: no caller ever sees a request in progress.
hasActiveRequest_Never(w, key) == FALSE

\* The test of preventStampede: is a request for the key in progress?
\* A has() that is true as soon as any key is in flight.
hasActiveRequest_AnyKey(w, key) == \E k \in DOMAIN w.activeRequests : w.activeRequests[k] # 0

hasActiveRequest(w, key) == w.activeRequests[key] # 0

\* A finally block that leaves the entry in the map.
deleteActiveRequest_Kept(w, key) == w

\* preventStampede's finally: this.activeRequests.delete(cacheKey).
deleteActiveRequest(w, key) == [w EXCEPT !.activeRequests[key] = 0]

\* ----------------------------------------------------------- CacheService
JsonStringify(rec) == [kind |-> "json", fields |-> rec]

\* A CacheService.get that finds nothing, whatever the store holds.
cacheGet_AlwaysMiss(w, key, fault) == Null

\* The JSON value false, and what JavaScript's `if (v)` makes of a value.
JsFalse == [kind |-> "false"]

Truthy(v) == v \notin {Null, JsFalse}

\* Texts the store may hold from before the process started: a bare URL, the
\* JSON text false, the JSON text null.
LegacyText == [kind |-> "text", text |-> "https://cdn.example/video.mp4"]
FalseText  == [kind |-> "json", fields |-> JsFalse, text |-> "false"]
NullText   == [kind |-> "json", fields |-> Null, text |-> "null"]

\* CacheService.get: a failing store reads as a miss, a JSON text as the value
\* it parses to, any other text as a legacy bare URL; so does the JSON text
\* null, whose property read throws inside the inner try.
cacheGet(w, key, fault) ==
    IF fault \/ w.cache[key] = Null THEN Null
    ELSE IF w.cache[key].kind = "json" /\ w.cache[key].fields # Null
    THEN w.cache[key].fields
    ELSE [downloadUrl |-> w.cache[key].text, cached |-> TRUE, tool |-> "unknown",
          strategy |-> "legacy"]

\* A CacheService.set that sends no expiry: the record stays for ever.
cacheSet_NoExpiry(w, key, downloadResult, fault) ==
    IF fault THEN w
    ELSE [w EXCEPT !.cache[key] =
            JsonStringify(downloadResult @@ [ttl |-> defaultTtl]) @@ [ex |-> 0]]

\* A CacheService.set whose command never reaches the store.
cacheSet_WritesNothing(w, key, downloadResult, fault) == w

\* CacheService.set: the text is stored with 'EX' and the expiry in seconds;
\* a failing store leaves the key as it was.
cacheSet(w, key, downloadResult, fault) ==
    IF fault THEN w
    ELSE [w EXCEPT !.cache[key] =
            JsonStringify(downloadResult @@ [ttl |-> defaultTtl]) @@ [ex |-> defaultTtl]]

\* --------------------------------------------------- DownloadOrchestrator
\* An _updateStrategyMetrics that counts a failure as an attempt only.
_updateStrategyMetrics_FailureUncounted(w, name, success) ==
    LET old == IF w.metrics.strategiesUsed[name] = Null
               THEN [attempts |-> 0, successes |-> 0, failures |-> 0]
               ELSE w.metrics.strategiesUsed[name]
    IN  [w EXCEPT !.metrics.strategiesUsed[name] =
            [attempts |-> old.attempts + 1,
             successes |-> old.successes + (IF success THEN 1 ELSE 0),
             failures |-> old.failures]]

_updateStrategyMetrics(w, name, success) ==
    LET old == IF w.metrics.strategiesUsed[name] = Null
               THEN [attempts |-> 0, successes |-> 0, failures |-> 0]
               ELSE w.metrics.strategiesUsed[name]
    IN  [w EXCEPT !.metrics.strategiesUsed[name] =
            [attempts |-> old.attempts + 1,
             successes |-> old.successes + (IF success THEN 1 ELSE 0),
             failures |-> old.failures + (IF success THEN 0 ELSE 1)]]

\* A loop that starts again at the first tool when the last one has failed.
Loop_Restarts(w, c, i) ==
    LET url == normalizeUrl(w.calls[c].raw)
    IN  IF canHandle(url)
        THEN [w EXCEPT !.calls[c].pc = "backoff",
                       !.calls[c].tool = IF i <= Len(orchestratorStrategies) THEN i ELSE 1,
                       !.calls[c].asleepSince = w.now,
                       !.calls[c].wake = w.now + getBackoffDelay(w, "instagram.com")]
        ELSE [w EXCEPT !.metrics.failedDownloads = @ + 1,
                       !.calls[c].pc = "settled",
                       !.calls[c].work =
                           [kind |-> "rejected", message |-> {}, cause |-> Null]]

\* The for loop of _executeDownloadStrategies from tool number i on, up to its
\* next await: applyBackoff before the first tool that can handle the
\* identifier, or the throw that ends the loop.
Loop(w, c, i) ==
    LET url == normalizeUrl(w.calls[c].raw)
        lr == w.calls[c].lastResult
    IN  IF i <= Len(orchestratorStrategies) /\ canHandle(url)
        THEN [w EXCEPT !.calls[c].pc = "backoff",
                       !.calls[c].tool = i,
                       !.calls[c].asleepSince = w.now,
                       !.calls[c].wake = w.now + getBackoffDelay(w, "instagram.com")]
        ELSE [w EXCEPT !.metrics.failedDownloads = @ + 1,
                       !.calls[c].pc = "settled",
                       !.calls[c].work =
                           [kind |-> "rejected",
                            message |-> IF lr = Null THEN {} ELSE lr.error,
                            cause |-> lr]]

\* The tool of call c's current execute, and its strategy list.
ToolOf(w, c) == orchestratorStrategies[w.calls[c].tool]

SetLast(log, st, strategyName, u) ==
    [log EXCEPT ![Len(log)] =
        [tool |-> log[Len(log)].tool, state |-> st, strategy |-> strategyName, url |-> u]]

\* execute returned success: the success branch of _executeDownloadStrategies
\* up to `await this.cacheService.set`.
ToolSucceeded(w, c, strategyName, u, fault) ==
    LET tool == ToolOf(w, c)
        key == CacheKeyOf(w.calls[c].raw)
        w1 == [w EXCEPT !.metrics.successfulDownloads = @ + 1]
        w2 == _updateStrategyMetrics(w1, tool, TRUE)
        w3 == recordSuccess(w2, "instagram.com")
        result == [success |-> TRUE, downloadUrl |-> u, tool |-> tool,
                   strategy |-> strategyName, duration |-> "duration",
                   metadata |-> [priority |-> w.calls[c].strat]]
        finalResult == [success |-> TRUE, downloadUrl |-> result.downloadUrl,
                        cached |-> FALSE,
                        originalUrl |-> w.calls[c].raw,
                        metadata |-> result.metadata
                                     @@ [cacheKey |-> key,
                                         attemptCount |-> w.calls[c].tool]]
        w4 == cacheSet(w3, key,
                       [downloadUrl |-> result.downloadUrl, tool |-> result.tool,
                        strategy |-> result.strategy,
                        originalUrl |-> w.calls[c].raw,
                        metadata |-> finalResult.metadata],
                       fault)
    IN  [w4 EXCEPT !.calls[c].toolLog = SetLast(@, "success", strategyName, u),
                   !.calls[c].strat = 0,
                   !.calls[c].lastError = Null,
                   !.calls[c].work = [kind |-> "fulfilled", value |-> finalResult],
                   !.calls[c].storeOps = @ + 1,
                   !.calls[c].setFault = fault,
                   !.calls[c].pc = "caching"]

\* The else branch recording every failure, whatever its category.
ToolFailed_AlwaysRecords(w, c) ==
    LET tool == ToolOf(w, c)
        lastError == w.calls[c].lastError
        result == [success |-> FALSE, tool |-> tool, strategy |-> "all_failed",
                   error |-> IF lastError = Null THEN {} ELSE lastError.message,
                   errorCategory |-> categorizeError(tool, lastError),
                   metadata |-> [strategiesTried |-> Strategies(tool)],
                   cause |-> lastError]
        w1 == [w EXCEPT !.calls[c].lastResult = result,
                        !.calls[c].strat = 0,
                        !.calls[c].lastError = Null,
                        !.calls[c].toolLog = SetLast(@, "failure", "all_failed", NoUrl)]
        w2 == _updateStrategyMetrics(w1, tool, FALSE)
    IN  Loop(recordFailure(w2, "instagram.com", result.errorCategory), c, w.calls[c].tool + 1)

\* execute returned its all_failed result (`cause` keeps the error object the
\* result's texts were taken from): the else branch, then the loop.
ToolFailed(w, c) ==
    LET tool == ToolOf(w, c)
        lastError == w.calls[c].lastError
        errorCategory == categorizeError(tool, lastError)
        result == [success |-> FALSE, tool |-> tool, strategy |-> "all_failed",
                   error |-> IF lastError = Null THEN {} ELSE lastError.message,
                   errorCategory |-> errorCategory,
                   metadata |-> [strategiesTried |-> Strategies(tool)],
                   cause |-> lastError]
        w1 == [w EXCEPT !.calls[c].lastResult = result,
                        !.calls[c].strat = 0,
                        !.calls[c].lastError = Null,
                        !.calls[c].toolLog = SetLast(@, "failure", "all_failed", NoUrl)]
        w2 == _updateStrategyMetrics(w1, tool, FALSE)
        w3 == IF errorCategory = "rate_limit"
              THEN recordFailure(w2, "instagram.com", "rate_limit")
              ELSE w2
    IN  Loop(w3, c, w.calls[c].tool + 1)

\* An orchestrator without the catch around execute: the exception ends the
\* orchestration.
ToolThrew_Aborts(w, c) ==
    [w EXCEPT !.calls[c].strat = 0,
              !.calls[c].lastError = Null,
              !.calls[c].toolLog = SetLast(@, "exception", "", NoUrl),
              !.calls[c].pc = "settled",
              !.calls[c].work = [kind |-> "rejected", message |-> {}, cause |-> Null]]

\* execute threw: the catch branch, then the loop.
ToolThrew(w, c) ==
    LET w1 == [w EXCEPT !.calls[c].lastResult =
                            [tool |-> ToolOf(w, c), error |-> {}, errorCategory |-> "exception"],
                        !.calls[c].strat = 0,
                        !.calls[c].lastError = Null,
                        !.calls[c].toolLog = SetLast(@, "exception", "", NoUrl)]
    IN  Loop(w1, c, w.calls[c].tool + 1)

\* A strategy loop that leaves out the strategy after one that gave no URL.
NextStrategy_Skips(w, c, afterError) ==
    IF w.calls[c].strat + 1 < Len(Strategies(ToolOf(w, c)))
    THEN [w EXCEPT !.calls[c].strat = @ + 2,
                   !.calls[c].invocations = @ + 1]
    ELSE ToolFailed(w, c)

\* The strategy loop of execute after a strategy that gave no URL.
NextStrategy(w, c, afterError) ==
    IF w.calls[c].strat < Len(Strategies(ToolOf(w, c)))
    THEN IF afterError
         THEN [w EXCEPT !.calls[c].pc = "delay"]
         ELSE [w EXCEPT !.calls[c].strat = @ + 1,
                        !.calls[c].invocations = @ + 1]
    ELSE ToolFailed(w, c)

\* An execute that returns a URL only from its last strategy and otherwise
\* goes on to the next one.
OnStrategyExit_KeepsGoing(w, c, o, fault) ==
    LET tool == ToolOf(w, c)
        strategyName == Strategies(tool)[w.calls[c].strat]
    IN  IF o.kind = "exit"
        THEN LET downloadUrl == ParseOutput(tool, strategyName, o.stdout)
             IN  IF downloadUrl # NoUrl /\ w.calls[c].strat = Len(Strategies(tool))
                 THEN ToolSucceeded(w, c, strategyName, downloadUrl, fault)
                 ELSE NextStrategy(w, c, FALSE)
        ELSE IF o.kind = "error"
        THEN NextStrategy([w EXCEPT !.calls[c].lastError = o.err], c, TRUE)
        ELSE ToolThrew(w, c)

\* An execute that forgets the last error when a later strategy exits with
\* no URL.
OnStrategyExit_ForgetsError(w, c, o, fault) ==
    LET tool == ToolOf(w, c)
        strategyName == Strategies(tool)[w.calls[c].strat]
    IN  IF o.kind = "exit"
        THEN LET downloadUrl == ParseOutput(tool, strategyName, o.stdout)
             IN  IF downloadUrl # NoUrl
                 THEN ToolSucceeded(w, c, strategyName, downloadUrl, fault)
                 ELSE NextStrategy([w EXCEPT !.calls[c].lastError = Null], c, FALSE)
        ELSE IF o.kind = "error"
        THEN NextStrategy([w EXCEPT !.calls[c].lastError = o.err], c, TRUE)
        ELSE ToolThrew(w, c)

\* An execute continuation whose cache write lets the store's fault out: the
\* rejection of `await this.cacheService.set` lands in the catch branch.
OnStrategyExit_SetFaultThrows(w, c, o, fault) ==
    LET tool == ToolOf(w, c)
        strategyName == Strategies(tool)[w.calls[c].strat]
    IN  IF o.kind = "exit"
        THEN LET downloadUrl == ParseOutput(tool, strategyName, o.stdout)
             IN  IF downloadUrl # NoUrl
                 THEN IF fault
                      THEN ToolThrew([w EXCEPT !.calls[c].setFault = TRUE], c)
                      ELSE ToolSucceeded(w, c, strategyName, downloadUrl, fault)
                 ELSE NextStrategy(w, c, FALSE)
        ELSE IF o.kind = "error"
        THEN NextStrategy([w EXCEPT !.calls[c].lastError = o.err], c, TRUE)
        ELSE ToolThrew(w, c)

\* The continuation of `await execFileAsync(...)` in execute.
OnStrategyExit(w, c, o, fault) ==
    LET tool == ToolOf(w, c)
        strategyName == Strategies(tool)[w.calls[c].strat]
    IN  IF o.kind = "exit"
        THEN LET downloadUrl == ParseOutput(tool, strategyName, o.stdout)
             IN  IF downloadUrl # NoUrl
                 THEN ToolSucceeded(w, c, strategyName, downloadUrl, fault)
                 ELSE NextStrategy(w, c, FALSE)
        ELSE IF o.kind = "error"
        THEN NextStrategy([w EXCEPT !.calls[c].lastError = o.err], c, TRUE)
        ELSE ToolThrew(w, c)

\* download() has returned `result`: its local variables are gone.
Returned(call, result) ==
    [call EXCEPT !.pc = "done", !.result = result, !.looked = Null,
                 !.wake = 0, !.asleepSince = 0, !.tool = 0, !.toolLog = <<>>,
                 !.strat = 0,
                 !.lastError = Null, !.lastResult = Null]

\* A catch block of download that also sends a DEL for the key of the failed
\* download.
Settle_DropsRecord(w, c, work) ==
    IF work.kind = "fulfilled"
    THEN [w EXCEPT !.calls[c] = Returned(@, work.value)]
    ELSE [w EXCEPT !.metrics.failedDownloads = @ + 1,
                   !.cache[CacheKeyOf(w.calls[c].raw)] = Null,
                   !.calls[c] = Returned(@, _createErrorResponse(work.message))]

\* What a caller of preventStampede gets from the settled promise, in
\* download: the value, or the catch block's error response.
Settle(w, c, work) ==
    IF work.kind = "fulfilled"
    THEN [w EXCEPT !.calls[c] = Returned(@, work.value)]
    ELSE [w EXCEPT !.metrics.failedDownloads = @ + 1,
                   !.calls[c] = Returned(@, _createErrorResponse(work.message))]

\* ---------------------------------------------------------------- actions
\* download(): from the call to `await this.cacheService.get(cacheKey)`. The
\* store answers commands in the order they are sent, so the value read is the
\* one stored when the command is sent.
Start(c, raw, fault) ==
    /\ calls[c].pc = "idle"
    /\ IF c = 1 THEN TRUE ELSE calls[c - 1].pc # "idle"
    /\ LET w1 == [World EXCEPT !.metrics.totalRequests = @ + 1,
                               !.calls[c].raw = raw,
                               !.calls[c].doneAtStart = {d \in CallIds : calls[d].pc = "done"}]
       IN  IF ~isValidInstagramUrl(raw)
           THEN /\ ~fault
                /\ Commit([w1 EXCEPT !.metrics.failedDownloads = @ + 1,
                                     !.calls[c] =
                                        Returned(@, _createErrorResponse(InvalidUrlMessage))])
           ELSE Commit([w1 EXCEPT !.calls[c].looked = cacheGet(w1, CacheKeyOf(raw), fault),
                                  !.calls[c].getFault = fault,
                                  !.calls[c].storeOps = @ + 1,
                                  !.calls[c].pc = "lookup"])

\* download() after the cache lookup: the hit, or preventStampede up to its
\* await (the owner's requestFn runs up to its first await before the entry
\* is set, all in one turn of the event loop).
AfterLookup(c) ==
    /\ calls[c].pc = "lookup"
    /\ LET w == World
           key == CacheKeyOf(calls[c].raw)
           cachedResult == calls[c].looked
       IN  IF Truthy(cachedResult)
           THEN Commit([w EXCEPT !.metrics.cacheHits = @ + 1,
                                 !.calls[c] =
                                    Returned(@, [success |-> TRUE,
                                                 downloadUrl |-> cachedResult.downloadUrl,
                                                 cached |-> TRUE, originalUrl |-> calls[c].raw])])
           ELSE IF hasActiveRequest(w, key)
           THEN Commit([w EXCEPT !.calls[c].role = "waiter",
                                 !.calls[c].joined = activeRequests[key],
                                 !.calls[c].pc = "waiting"])
           ELSE Commit([Loop([w EXCEPT !.calls[c].role = "owner",
                                       !.calls[c].peers =
                                          {activeRequests[k] : k \in Keys} \ {0}], c, 1)
                           EXCEPT !.activeRequests[key] = c])

\* applyBackoff's timer has fired (or no delay was owed): execute starts and
\* invokes its first strategy.
AfterBackoff(c) ==
    /\ calls[c].pc = "backoff"
    /\ now >= calls[c].wake
    /\ Commit([World EXCEPT
            !.calls[c].toolLog =
                Append(@, [tool |-> orchestratorStrategies[calls[c].tool],
                           state |-> "running", strategy |-> "", url |-> NoUrl]),
            !.calls[c].lastError = Null,
            !.calls[c].strat = 1,
            !.calls[c].invocations = @ + 1,
            !.calls[c].wake = 0,
            !.calls[c].asleepSince = 0,
            !.calls[c].pc = "exec"])

\* The external process of the current strategy has ended.
StrategyExit(c, o, fault) ==
    /\ calls[c].pc = "exec"
    /\ fault => (o.kind = "exit"
                 /\ ParseOutput(ToolOf(World, c), Strategies(ToolOf(World, c))[calls[c].strat],
                                o.stdout) # NoUrl)
    /\ Commit(OnStrategyExit(World, c, o, fault))

\* The delay between two strategies has elapsed: the next one is invoked.
AfterDelay(c) ==
    /\ calls[c].pc = "delay"
    /\ Commit([World EXCEPT !.calls[c].strat = @ + 1,
                            !.calls[c].invocations = @ + 1,
                            !.calls[c].pc = "exec"])

\* cacheService.set has returned: _executeDownloadStrategies returns
\* finalResult and the request promise is fulfilled.
AfterCacheSet(c) ==
    /\ calls[c].pc = "caching"
    /\ Commit([World EXCEPT !.calls[c].pc = "settled"])

\* The owner's continuation in preventStampede: finally, then download's
\* return or catch.
OwnerFinish(c) ==
    /\ calls[c].pc = "settled"
    /\ Commit(Settle(deleteActiveRequest(World, CacheKeyOf(calls[c].raw)),
                     c, calls[c].work))

\* A waiter that is resumed only when the promise it awaits is fulfilled.
WaiterFinish_OnlyOnSuccess(c) ==
    /\ calls[c].pc = "waiting"
    /\ calls[calls[c].joined].pc \in {"settled", "done"}
    /\ calls[calls[c].joined].work.kind = "fulfilled"
    /\ Commit(Settle(World, c, calls[calls[c].joined].work))

\* A waiter's continuation of `await this.activeRequests.get(cacheKey)`.
WaiterFinish(c) ==
    /\ calls[c].pc = "waiting"
    /\ calls[calls[c].joined].pc \in {"settled", "done"}
    /\ Commit(Settle(World, c, calls[calls[c].joined].work))

\* Somebody is waiting for the clock: a backoff window is open or a backoff
\* timer is pending. Otherwise no code reads a difference of times, and a
\* behaviour with the clock advanced is the same behaviour shifted in time.
ClockIsRead ==
    \/ \E d \in Domains : getBackoffDelay(World, d) > 0
    \/ \E c \in CallIds : calls[c].pc = "backoff" /\ calls[c].wake > now

\* Time passes.
Tick ==
    /\ now < MaxTicks * baseBackoffMs
    /\ ClockIsRead
    /\ now' = now + baseBackoffMs
    /\ UNCHANGED <<domainFailures, activeRequests, cache, metrics, calls, probe>>

\* The store drops a record whose expiry time has come.
Expire(k) ==
    /\ cache[k] # Null
    /\ cache' = [cache EXCEPT ![k] = Null]
    /\ UNCHANGED <<now, domainFailures, activeRequests, metrics, calls, probe>>

NextOver(raws, outcomes) ==
    \/ \E c \in CallIds, raw \in raws, fault \in BOOLEAN : Start(c, raw, fault)
    \/ \E c \in CallIds : AfterLookup(c)
    \/ \E c \in CallIds : AfterBackoff(c)
    \/ \E c \in CallIds, o \in outcomes, fault \in BOOLEAN : StrategyExit(c, o, fault)
    \/ \E c \in CallIds : AfterDelay(c)
    \/ \E c \in CallIds : AfterCacheSet(c)
    \/ \E c \in CallIds : OwnerFinish(c)
    \/ \E c \in CallIds : WaiterFinish(c)
    \/ Tick
    \/ \E k \in Keys : Expire(k)

NextWith(outcomes) == NextOver(RawIds, outcomes)

\* The program with its two tools.
Next == NextWith(Outcomes)

Spec == Init /\ [][Next]_vars

\* The program with tools whose execute may also throw.
NextThrow == NextWith(Outcomes \cup {Thrown})

SpecThrow == Init /\ [][NextThrow]_vars

\* The program within the lifetime of its records: a download takes minutes
\* at most and a record stays for twenty days, so no record expires.
NextFresh ==
    \/ \E c \in CallIds, raw \in RawIds, fault \in BOOLEAN : Start(c, raw, fault)
    \/ \E c \in CallIds : AfterLookup(c)
    \/ \E c \in CallIds : AfterBackoff(c)
    \/ \E c \in CallIds, o \in Outcomes, fault \in BOOLEAN : StrategyExit(c, o, fault)
    \/ \E c \in CallIds : AfterDelay(c)
    \/ \E c \in CallIds : AfterCacheSet(c)
    \/ \E c \in CallIds : OwnerFinish(c)
    \/ \E c \in CallIds : WaiterFinish(c)
    \/ Tick

SpecFresh == Init /\ [][NextFresh]_vars

\* The program called for two posts, both of which the tools handle.
PostXYZ == Url("https", "www.instagram.com", <<"p", "XYZ789">>)

NextTwoKeys == NextOver({PostABC, PostXYZ}, Outcomes)

SpecTwoKeys == Init /\ [][NextTwoKeys]_vars

\* The program with tools whose invocations may run into their timeout.
TimeoutOutcomes ==
    {[kind |-> "exit", stdout |-> <<>>],
     [kind |-> "exit", stdout |-> <<UrlLine(U1), UrlLine(U2)>>],
     [kind |-> "error", err |-> ErrRate]}
    \cup {[kind |-> "error", err |-> e] : e \in TimeoutErrors}

NextTimeout == NextOver({PostABC}, TimeoutOutcomes)

SpecTimeout == Init /\ [][NextTimeout]_vars

\* The program called for one post, with time that goes on for as long as a
\* call sleeps, every invocation ending, every store operation answering and
\* every timer firing.
LiveOutcomes ==
    {[kind |-> "exit", stdout |-> <<>>],
     [kind |-> "exit", stdout |-> <<UrlLine(U1), UrlLine(U2)>>],
     [kind |-> "error", err |-> ErrRate]}

\* The timer of applyBackoff runs: time passes while a call sleeps.
TickLive ==
    /\ \E c \in CallIds : calls[c].pc = "backoff" /\ calls[c].wake > now
    /\ now' = now + baseBackoffMs
    /\ UNCHANGED <<domainFailures, activeRequests, cache, metrics, calls, probe>>

\* The continuation of the await call c is suspended in: at most one of
\* these is enabled, according to the call's position.
Resume(c) ==
    \/ AfterLookup(c)
    \/ AfterBackoff(c)
    \/ \E o \in LiveOutcomes : StrategyExit(c, o, FALSE)
    \/ AfterDelay(c)
    \/ AfterCacheSet(c)
    \/ OwnerFinish(c)
    \/ WaiterFinish(c)

NextLive ==
    \/ \E c \in CallIds : Start(c, PostABC, FALSE)
    \/ \E c \in CallIds : Resume(c)
    \/ TickLive

\* The event loop resumes every continuation that can run, and timers fire.
Fairness ==
    /\ WF_vars(TickLive)
    /\ \A c \in CallIds : WF_vars(Resume(c))

SpecLive == Init /\ [][NextLive]_vars /\ Fairness

\* The program started on a store that already holds a text under the post
\* key: written by an earlier version or by another writer.
InitLegacy ==
    /\ now = 0
    /\ domainFailures = [d \in Domains |-> Null]
    /\ activeRequests = [k \in Keys |-> 0]
    /\ cache \in {[k \in Keys |-> IF k = <<"post", "ABC123">> THEN t ELSE Null] :
                      t \in {LegacyText, FalseText, NullText}}
    /\ metrics = InitMetrics
    /\ calls = [c \in CallIds |-> IdleCall]
    /\ probe = Null

SpecLegacy == InitLegacy /\ [][Next]_vars

\* ------------------------------------------ the classifiers on their own
\* The substrings the classifiers look for, some of them capitalised, as the
\* parts an error text is made of.
ErrorFragments ==
    {"rate-limit", "429", "authentication", "Authentication", "login required",
     "not found", "Not Found", "not available", "404", "timeout", "Timeout"}

ErrorTexts == {t \in SUBSET ErrorFragments : Cardinality(t) <= MaxFragments}

\* execFile's error message ends with the stderr text: what stderr holds, the
\* message holds too.
ToolErrors == UNION {{Err(m, e) : e \in SUBSET m} : m \in ErrorTexts}

\* The outcomes download hands to the HTTP layer on success.
SuccessOutcomes ==
    {[success |-> TRUE, downloadUrl |-> U1, cached |-> b, originalUrl |-> PostABC] :
        b \in BOOLEAN}

\* app.post('/download'): the status of the answer to a download outcome.
HttpStatus_Always200(result) == 200

HttpStatus(result) ==
    IF result.success THEN 200
    ELSE IF result.statusCode # 0 THEN result.statusCode
    ELSE 500

InitClassify ==
    /\ now = 0
    /\ domainFailures = [d \in Domains |-> Null]
    /\ activeRequests = [k \in Keys |-> 0]
    /\ cache = [k \in Keys |-> Null]
    /\ metrics = InitMetrics
    /\ calls = [c \in CallIds |-> IdleCall]
    /\ probe \in {[stage |-> "error", error |-> e] : e \in ToolErrors}
               \cup {[stage |-> "thrown", message |-> InvalidUrlMessage]}
               \cup {[stage |-> "outcome", outcome |-> r] : r \in SuccessOutcomes}

\* An error of a tool's last strategy goes through the tool's classifier, and
\* its message through the catch block of download.
ClassifyToolError ==
    /\ probe.stage = "error"
    /\ probe' = [stage |-> "outcome", error |-> probe.error,
                 yt |-> YtDlp_categorizeError(probe.error),
                 gd |-> GalleryDl_categorizeError(probe.error),
                 outcome |-> _createErrorResponse(probe.error.message)]
    /\ UNCHANGED <<now, domainFailures, activeRequests, cache, metrics, calls>>

\* The validation error goes through the catch block of download.
ClassifyThrown ==
    /\ probe.stage = "thrown"
    /\ probe' = [stage |-> "outcome", outcome |-> _createErrorResponse(probe.message)]
    /\ UNCHANGED <<now, domainFailures, activeRequests, cache, metrics, calls>>

\* The HTTP layer answers.
Respond ==
    /\ probe.stage = "outcome"
    /\ probe' = [probe EXCEPT !.stage = "responded"] @@ [http |-> HttpStatus(probe.outcome)]
    /\ UNCHANGED <<now, domainFailures, activeRequests, cache, metrics, calls>>

NextClassify == ClassifyToolError \/ ClassifyThrown \/ Respond

SpecClassify == InitClassify /\ [][NextClassify]_vars

\* --------------------------------------------- UrlService on its own
UrlSchemes == {"https", "http", "HTTPS", "ftp"}

UrlHosts ==
    {"instagram.com", "www.instagram.com", "INSTAGRAM.COM", "m.instagram.com",
     "instagram.com.evil.com", "youtube.com"}

UrlPaths ==
    {<<>>, <<"p">>, <<"p", "">>, <<"p", "ABC123">>, <<"P", "ABC123">>,
     <<"reel", "ABC123">>, <<"reels", "ABC123">>, <<"p", "AB.C">>, <<"reel", "AB.C">>,
     <<"tv", "ABC123">>, <<"watch">>, <<"stories", "user">>,
     <<"stories", "user", "123456">>, <<"STORIES", "user", "123456">>,
     <<"stories", "reelsdaily", "123456">>, <<"stories", "reels", "123456">>,
     <<"stories", "p", "123456">>}

UrlInputs ==
    LET urls == {Url(sc, h, path) : sc \in UrlSchemes, h \in UrlHosts, path \in UrlPaths}
    IN  urls \cup {Padded(u) : u \in urls} \cup {NotUrl, NotAString}

InitUrl ==
    /\ now = 0
    /\ domainFailures = [d \in Domains |-> Null]
    /\ activeRequests = [k \in Keys |-> 0]
    /\ cache = [k \in Keys |-> Null]
    /\ metrics = InitMetrics
    /\ calls = [c \in CallIds |-> IdleCall]
    /\ probe \in {[stage |-> "raw", raw |-> u] : u \in UrlInputs}

\* Step 1 of download on the identifier: validation, then normalizeUrl,
\* extractCacheKey and getUrlType; and the same once more on the normalized
\* identifier.
ProcessUrl ==
    /\ probe.stage = "raw"
    /\ probe' =
          IF ~isValidInstagramUrl(probe.raw)
          THEN [stage |-> "refused", raw |-> probe.raw]
          ELSE LET normalizedUrl == normalizeUrl(probe.raw)
               IN  [stage |-> "processed", raw |-> probe.raw,
                    normalizedUrl |-> normalizedUrl,
                    cacheKey |-> extractCacheKey(normalizedUrl),
                    urlType |-> getUrlType(normalizedUrl),
                    again |-> normalizeUrl(normalizedUrl),
                    keyAgain |-> extractCacheKey(normalizeUrl(normalizedUrl))]
    /\ UNCHANGED <<now, domainFailures, activeRequests, cache, metrics, calls>>

NextUrl == ProcessUrl

SpecUrl == InitUrl /\ [][NextUrl]_vars

\* ------------------------------------------- cache keys of two identifiers
\* Paths of identifiers that pass the validation: posts and reels, stories
\* with and without a story id, of several owners.
KeyPaths ==
    {<<"p", "ABC123">>, <<"reel", "ABC123">>, <<"p", "XYZ789">>, <<"p", "123456">>,
     <<"reels", "XYZ789">>,
     <<"stories", "alice">>, <<"stories", "bob">>,
     <<"stories", "alice", "123456">>, <<"stories", "bob", "123456">>,
     <<"stories", "alice", "654321">>, <<"stories", "reels", "123456">>}

KeyInputs == {Url("https", "www.instagram.com", path) : path \in KeyPaths} \cup {YouTube}

InitKeys ==
    /\ now = 0
    /\ domainFailures = [d \in Domains |-> Null]
    /\ activeRequests = [k \in Keys |-> 0]
    /\ cache = [k \in Keys |-> Null]
    /\ metrics = InitMetrics
    /\ calls = [c \in CallIds |-> IdleCall]
    /\ probe \in {[stage |-> "raw", a |-> a, b |-> b] : a, b \in KeyInputs}

\* Step 1 of two downloads: each identifier is validated, normalized and
\* given its cache key.
ProcessPair ==
    /\ probe.stage = "raw"
    /\ probe' =
          IF ~isValidInstagramUrl(probe.a) \/ ~isValidInstagramUrl(probe.b)
          THEN [stage |-> "refused", a |-> probe.a, b |-> probe.b]
          ELSE [stage |-> "keyed", a |-> probe.a, b |-> probe.b,
                keyA |-> extractCacheKey(normalizeUrl(probe.a)),
                keyB |-> extractCacheKey(normalizeUrl(probe.b))]
    /\ UNCHANGED <<now, domainFailures, activeRequests, cache, metrics, calls>>

NextKeys == ProcessPair

SpecKeys == InitKeys /\ [][NextKeys]_vars

\* ------------------------------------------- the line parsers on their own
\* An http(s) line that the video heuristic refuses, and a line of other
\* text (a progress or warning line).
U3 == "https://www.instagram.com/p/ABC123/cover.jpg"

TextLine == [kind |-> "text", url |-> NoUrl]

Lines == {UrlLine(U1), UrlLine(U2), UrlLine(U3), JsonLine(U1), TextLine}

LineSeqs == UNION {[1..n -> Lines] : n \in 0..MaxLines}

InitLines ==
    /\ now = 0
    /\ domainFailures = [d \in Domains |-> Null]
    /\ activeRequests = [k \in Keys |-> 0]
    /\ cache = [k \in Keys |-> Null]
    /\ metrics = InitMetrics
    /\ calls = [c \in CallIds |-> IdleCall]
    /\ probe \in {[stage |-> "raw", stdout |-> s] : s \in LineSeqs}

\* The output of one invocation given to the line parser of each tool.
ParseLines ==
    /\ probe.stage = "raw"
    /\ probe' = [stage |-> "parsed", stdout |-> probe.stdout,
                 primary |-> _extractDownloadUrl(probe.stdout),
                 fallback |-> _extractDirectUrl(probe.stdout)]
    /\ UNCHANGED <<now, domainFailures, activeRequests, cache, metrics, calls>>

NextLines == ParseLines

SpecLines == InitLines /\ [][NextLines]_vars

\* ------------------------------------------------- health and reset
\* A resetMetrics that also calls rateLimitManager.reset().
resetMetrics_AlsoBackoff(w) ==
    [w EXCEPT !.metrics = InitMetrics, !.domainFailures["instagram.com"] = Null]

\* resetMetrics: this.metrics is replaced by a fresh object.
resetMetrics(w) == [w EXCEPT !.metrics = InitMetrics]

\* (n / d * 100).toFixed(1), in tenths of a percent; '0%' when d is 0.
Percent(n, d) == IF d > 0 THEN (2000 * n + d) \div (2 * d) ELSE 0

\* CacheService.getStats: the number of keys, or the answer of its catch
\* block when the store fails.
cacheGetStats(w, fault) ==
    IF fault THEN [totalKeys |-> 0, connected |-> FALSE]
    ELSE [totalKeys |-> Cardinality({k \in DOMAIN w.cache : w.cache[k] # Null}),
          connected |-> TRUE]

\* RateLimitManager.getStats.
getStats(w) ==
    [activeRequests |-> Cardinality({k \in DOMAIN w.activeRequests : w.activeRequests[k] # 0}),
     domains |->
        [d \in {e \in Domains : w.domainFailures[e] # Null} |->
            [consecutiveFailures |-> w.domainFailures[d].consecutiveFailures,
             lastFailure |-> w.domainFailures[d].lastFailure,
             currentBackoffMs |-> getBackoffDelay(w, d),
             errorType |-> w.domainFailures[d].errorType]]]

\* getHealthStatus after `await this.cacheService.getStats()`.
getHealthStatus(w, cacheStats) ==
    LET m == w.metrics
    IN  [service |-> "instagram-downloader",
         healthy |-> TRUE,
         metrics |->
            [totalRequests |-> m.totalRequests,
             cacheHitRate |-> Percent(m.cacheHits, m.totalRequests),
             successRate |-> Percent(m.successfulDownloads, m.totalRequests),
             strategiesStats |->
                [t \in {u \in ToolNames : m.strategiesUsed[u] # Null} |->
                    m.strategiesUsed[t] @@
                    [successRate |-> Percent(m.strategiesUsed[t].successes,
                                             m.strategiesUsed[t].attempts)]]],
         cache |-> cacheStats,
         rateLimiting |-> getStats(w),
         strategies |->
            [i \in 1..Len(orchestratorStrategies) |->
                [name |-> orchestratorStrategies[i],
                 priority |-> getPriority(orchestratorStrategies[i])]]]

\* getHealthStatus up to the answer of the store; one snapshot is taken at a
\* time.
HealthStart(fault) ==
    /\ IF probe = Null THEN TRUE ELSE probe.stage = "snapshot"
    /\ probe' = [stage |-> "stats", cacheStats |-> cacheGetStats(World, fault)]
    /\ UNCHANGED <<now, domainFailures, activeRequests, cache, metrics, calls>>

\* getHealthStatus from there to its return.
HealthReturn ==
    /\ probe # Null
    /\ probe.stage = "stats"
    /\ probe' = [stage |-> "snapshot", value |-> getHealthStatus(World, probe.cacheStats)]
    /\ UNCHANGED <<now, domainFailures, activeRequests, cache, metrics, calls>>

ResetMetrics ==
    /\ metrics # InitMetrics
    /\ Commit(resetMetrics(World))

\* The program with its health endpoint and the reset of its metrics.
NextHealth ==
    \/ \E c \in CallIds : Start(c, PostABC, FALSE)
    \/ \E c \in CallIds : AfterLookup(c)
    \/ \E c \in CallIds : AfterBackoff(c)
    \/ \E c \in CallIds, o \in LiveOutcomes \cup {Thrown} : StrategyExit(c, o, FALSE)
    \/ \E c \in CallIds : AfterDelay(c)
    \/ \E c \in CallIds : AfterCacheSet(c)
    \/ \E c \in CallIds : OwnerFinish(c)
    \/ \E c \in CallIds : WaiterFinish(c)
    \/ Tick
    \/ \E fault \in BOOLEAN : HealthStart(fault)
    \/ HealthReturn
    \/ ResetMetrics

SpecHealth == Init /\ [][NextHealth]_vars

\* --------------------------------------------- one execute, on its own
\* this.userAgents of the two tools, each named by its device.
userAgents(tool) ==
    IF tool = "yt-dlp"
    THEN <<"iPhone OS 16_6", "iPhone OS 17_0", "Android 13 SM-G998B", "Android 12 Pixel 6">>
    ELSE <<"iPhone OS 16_6", "Android 13 SM-G998B">>

\* _getRandomUserAgent, with Math.random() = n / RandomSteps: the element at
\* Math.floor(random * length); arrays start at 0, sequences at 1.
_getRandomUserAgent(tool, n) ==
    userAgents(tool)[((n * Len(userAgents(tool))) \div RandomSteps) + 1]

\* A buildArgs that takes the agent from the pool by the strategy's number.
buildArgs_OwnAgent(tool, i, userAgent) ==
    [command |-> tool, strategy |-> Strategies(tool)[i],
     userAgent |-> userAgents(tool)[((i - 1) % Len(userAgents(tool))) + 1]]

\* buildArgs of strategy number i: of the arguments, the one after
\* '--user-agent'.
buildArgs(tool, i, userAgent) ==
    [command |-> tool, strategy |-> Strategies(tool)[i], userAgent |-> userAgent]

InitExecute ==
    /\ now = 0
    /\ domainFailures = [d \in Domains |-> Null]
    /\ activeRequests = [k \in Keys |-> 0]
    /\ cache = [k \in Keys |-> Null]
    /\ metrics = InitMetrics
    /\ calls = [c \in CallIds |-> IdleCall]
    /\ probe \in {[stage |-> "called", tool |-> t] : t \in ToolNames}

\* execute up to its first `await execFileAsync`: the user agent is drawn,
\* and the first strategy's arguments are built with it.
ExecuteStart(n) ==
    /\ probe.stage = "called"
    /\ LET userAgent == _getRandomUserAgent(probe.tool, n)
       IN  probe' = [stage |-> "running", tool |-> probe.tool, userAgent |-> userAgent,
                     lastError |-> Null, strat |-> 1,
                     built |-> <<buildArgs(probe.tool, 1, userAgent)>>]
    /\ UNCHANGED <<now, domainFailures, activeRequests, cache, metrics, calls>>

\* The end of execute: the all_failed result.
ExecuteAllFailed(p, lastError) ==
    [stage |-> "returned", tool |-> p.tool, userAgent |-> p.userAgent, built |-> p.built,
     result |-> [success |-> FALSE, tool |-> p.tool, strategy |-> "all_failed",
                 errorCategory |-> categorizeError(p.tool, lastError)]]

\* The next turn of the for loop: the next strategy's arguments are built and
\* the process is started.
ExecuteNext(p, lastError) ==
    [p EXCEPT !.stage = "running", !.lastError = lastError, !.strat = @ + 1,
              !.built = Append(@, buildArgs(p.tool, p.strat + 1, p.userAgent))]

\* The process of the current strategy has ended.
ExecuteStrategyExit(o) ==
    /\ probe.stage = "running"
    /\ LET tool == probe.tool
           strategyName == Strategies(tool)[probe.strat]
           last == probe.strat = Len(Strategies(tool))
       IN  probe' =
             IF o.kind = "exit"
             THEN LET downloadUrl == ParseOutput(tool, strategyName, o.stdout)
                  IN  IF downloadUrl # NoUrl
                      THEN [stage |-> "returned", tool |-> tool,
                            userAgent |-> probe.userAgent, built |-> probe.built,
                            result |-> [success |-> TRUE, downloadUrl |-> downloadUrl,
                                        tool |-> tool, strategy |-> strategyName,
                                        metadata |-> [userAgent |-> probe.userAgent]]]
                      ELSE IF last THEN ExecuteAllFailed(probe, probe.lastError)
                      ELSE ExecuteNext(probe, probe.lastError)
             ELSE IF last THEN ExecuteAllFailed(probe, o.err)
             ELSE [probe EXCEPT !.stage = "delay", !.lastError = o.err]
    /\ UNCHANGED <<now, domainFailures, activeRequests, cache, metrics, calls>>

\* The delay after a failed strategy has elapsed.
ExecuteAfterDelay ==
    /\ probe.stage = "delay"
    /\ probe' = ExecuteNext(probe, probe.lastError)
    /\ UNCHANGED <<now, domainFailures, activeRequests, cache, metrics, calls>>

NextExecute ==
    \/ \E n \in 0..(RandomSteps - 1) : ExecuteStart(n)
    \/ \E o \in Outcomes : ExecuteStrategyExit(o)
    \/ ExecuteAfterDelay

SpecExecute == InitExecute /\ [][NextExecute]_vars

\* ------------------------------------- RateLimitManager on its own
\* The manager driven directly, as test/architecture.test.js drives it.
UnitRecordFailure(d) ==
    /\ (IF domainFailures["instagram.com"] = Null THEN 0
         ELSE domainFailures["instagram.com"].consecutiveFailures)
       + (IF domainFailures["test.com"] = Null THEN 0
          ELSE domainFailures["test.com"].consecutiveFailures) < MaxFailures
    /\ Commit(recordFailure(World, d, "rate_limit"))

UnitRecordSuccess(d) ==
    /\ domainFailures[d] # Null
    /\ Commit(recordSuccess(World, d))

UnitTick ==
    /\ now < MaxUnitTicks * baseBackoffMs
    /\ \E d \in Domains : domainFailures[d] # Null
    /\ now' = now + baseBackoffMs
    /\ UNCHANGED <<domainFailures, activeRequests, cache, metrics, calls, probe>>

NextUnit ==
    \/ \E d \in Domains : UnitRecordFailure(d)
    \/ \E d \in Domains : UnitRecordSuccess(d)
    \/ UnitTick

SpecUnit == Init /\ [][NextUnit]_vars

\* ================================================================ properties
Max(a, b) == IF a > b THEN a ELSE b

KeyOfCall(c) == CacheKeyOf(calls[c].raw)

\* Call c has started with an identifier that passes validation.
ValidCall(c) == calls[c].raw # Null /\ isValidInstagramUrl(calls[c].raw)

\* Call c is inside its pass of _executeDownloadStrategies.
Working(c) == calls[c].pc \in {"backoff", "exec", "delay", "caching"}

\* Calls c and d overlap in time: neither started after the other returned.
Concurrent(c, d) == c \notin calls[d].doneAtStart /\ d \notin calls[c].doneAtStart

\* ------------------------------------------------------------------- C1
\* C1: of two concurrent download calls with the same cache key whose cache
\* lookups both found no entry, only one runs _executeDownloadStrategies: when
\* one of them has made its pass and returned its failure, the other has not
\* made (and is not making) a pass of its own.
SingleExecutionPerKey ==
    \A c, d \in CallIds :
        (/\ c # d
         /\ ValidCall(c) /\ ValidCall(d)
         /\ KeyOfCall(c) = KeyOfCall(d)
         /\ canHandle(normalizeUrl(calls[c].raw))
         /\ Concurrent(c, d)
         /\ ~calls[c].getFault /\ ~calls[d].getFault
         /\ calls[c].role = "owner"
         /\ calls[c].pc = "done"
         /\ calls[c].work.kind = "rejected")
        => calls[d].role # "owner"

\* ------------------------------------------------------------------- C2
\* C2: per cache key at most one pass of the guarded work is running, and it is
\* the registered one; a caller that found an entry for its key never starts
\* the work, and returns exactly what the registered call returns.
ExclusiveExecution ==
    /\ \A k \in Keys :
          Cardinality({c \in CallIds : Working(c) /\ KeyOfCall(c) = k}) <= 1
    /\ \A c \in CallIds :
          Working(c) => activeRequests[KeyOfCall(c)] = c
    /\ \A k \in Keys :
          activeRequests[k] # 0 =>
              /\ calls[activeRequests[k]].role = "owner"
              /\ KeyOfCall(activeRequests[k]) = k
    /\ \A c \in CallIds :
          calls[c].role = "waiter" =>
              /\ calls[c].invocations = 0
              /\ calls[c].work = Null
              /\ activeRequests[KeyOfCall(c)] # c
              /\ calls[calls[c].joined].role = "owner"
              /\ KeyOfCall(calls[c].joined) = KeyOfCall(c)
              /\ (calls[c].pc = "done" /\ calls[calls[c].joined].pc = "done")
                    => calls[c].result = calls[calls[c].joined].result

\* A caller is attached to the registered execution while that execution has a
\* strategy running.
WaiterAttached ==
    \E c \in CallIds :
        /\ calls[c].pc = "waiting"
        /\ calls[calls[c].joined].pc = "exec"

\* ------------------------------------------------------------------- C3
\* The step in which call d sends its cache lookup while the record stored for
\* its key by the earlier successful call c is in the store.
LookupAfterSuccess(c, d) ==
    /\ c # d
    /\ calls[c].pc = "done"
    /\ calls[c].result.success
    /\ ~calls[c].result.cached
    /\ calls[d].pc = "idle"
    /\ calls'[d].pc # "idle"
    /\ isValidInstagramUrl(calls'[d].raw)
    /\ CacheKeyOf(calls'[d].raw) = KeyOfCall(c)
    /\ cache[KeyOfCall(c)] # Null
    /\ cache[KeyOfCall(c)].fields.downloadUrl = calls[c].result.downloadUrl

\* The step in which call d goes on from a lookup that found a record.
ReturnsHit(d) ==
    (calls[d].pc = "lookup" /\ calls[d].looked # Null /\ calls'[d] # calls[d])
    => /\ calls'[d].pc = "done"
       /\ calls'[d].result.success
       /\ calls'[d].result.cached
       /\ calls'[d].result.downloadUrl = calls[d].looked.downloadUrl
       /\ calls'[d].invocations = 0
       /\ calls'[d].role = "none"
       /\ domainFailures' = domainFailures
       /\ activeRequests' = activeRequests

\* C3 as stated: once a download for key K has returned success with
\* cached=false and URL u, and the record is still in the store, every later
\* download that maps to K finds u and returns it with cached=true, without a
\* tool execution, a backoff update or an in-flight registration.
CacheRoundTrip ==
    [][\A d \in CallIds :
          /\ \A c \in CallIds :
                LookupAfterSuccess(c, d)
                => /\ calls'[d].looked # Null
                   /\ calls'[d].looked.downloadUrl = calls[c].result.downloadUrl
          /\ ReturnsHit(d)]_vars

\* C3: the same, for every later download whose store lookup does not fail.
CacheRoundTripUnlessLookupFails ==
    [][\A d \in CallIds :
          /\ \A c \in CallIds :
                (LookupAfterSuccess(c, d) /\ ~calls'[d].getFault)
                => /\ calls'[d].looked # Null
                   /\ calls'[d].looked.downloadUrl = calls[c].result.downloadUrl
          /\ ReturnsHit(d)]_vars

\* A download of the post spelling has succeeded with a tool, and a later
\* download of the reel spelling has returned the same URL from the cache.
ReelServedFromPostRecord ==
    \E c, d \in CallIds :
        /\ calls[c].pc = "done" /\ calls[d].pc = "done"
        /\ c \in calls[d].doneAtStart
        /\ calls[c].raw = PostABC /\ calls[d].raw = ReelABC
        /\ calls[c].result.success /\ ~calls[c].result.cached
        /\ calls[d].result.success /\ calls[d].result.cached
        /\ calls[d].result.downloadUrl = calls[c].result.downloadUrl
        /\ calls[d].invocations = 0

FallbackCompleteness ==
    \A c \in CallIds :
        (/\ calls[c].pc = "done"
         /\ calls[c].role = "owner"
         /\ calls[c].work.kind = "rejected"
         /\ calls[c].work.cause # Null)
        => /\ calls[c].result.success = FALSE
           /\ calls[c].result.category = calls[c].work.cause.errorCategory

\* ------------------------------------------------------------------- C6
\* C6: in one orchestration the tools run in ascending priority, yt-dlp
\* (priority 1) first and gallery-dl (priority 2) second, one at a time;
\* gallery-dl's execute has started only if yt-dlp's execute returned a failure
\* or threw, never after its success.
ToolOrder ==
    \A c \in CallIds :
        LET log == calls[c].toolLog
        IN  /\ Len(log) <= 2
            /\ Len(log) >= 1 =>
                  /\ log[1].tool = "yt-dlp"
                  /\ getPriority(log[1].tool) = 1
            /\ Len(log) = 2 =>
                  /\ log[2].tool = "gallery-dl"
                  /\ getPriority(log[2].tool) = 2
                  /\ log[1].state \in {"failure", "exception"}
            /\ \A i \in 1..Len(log) :
                  log[i].state = "running" => (i = Len(log) /\ calls[c].pc \in {"exec", "delay"})
            /\ calls[c].pc \in {"exec", "delay"} =>
                  (Len(log) >= 1 /\ log[Len(log)].state = "running")

\* gallery-dl is running after yt-dlp has thrown, in a program whose earlier
\* orchestration ran gallery-dl after yt-dlp had returned its failure.
FallbackAfterFailureAndThrow ==
    \E c \in CallIds :
        /\ Len(calls[c].toolLog) = 2
        /\ calls[c].toolLog[1].state = "exception"
        /\ calls[c].toolLog[2].state = "running"
        /\ metrics.strategiesUsed["yt-dlp"] # Null
        /\ metrics.strategiesUsed["yt-dlp"].failures = 1
        /\ metrics.strategiesUsed["gallery-dl"] # Null
        /\ metrics.strategiesUsed["gallery-dl"].attempts = 1

\* ------------------------------------------------------------------- C7
\* C7: when a strategy's process exits and its output parses to a URL, execute
\* returns at once a success that names that strategy and that URL, with no
\* further strategy invoked; and a call whose tool has returned success never
\* has a strategy running again.
FirstSuccessWins ==
    [][\A c \in CallIds :
          /\ \A o \in Outcomes, fault \in BOOLEAN :
                LET tool == ToolOf(World, c)
                    strategyName == Strategies(tool)[calls[c].strat]
                IN  (/\ StrategyExit(c, o, fault)
                     /\ o.kind = "exit"
                     /\ ParseOutput(tool, strategyName, o.stdout) # NoUrl)
                    => /\ calls'[c].pc = "caching"
                       /\ calls'[c].invocations = calls[c].invocations
                       /\ calls'[c].toolLog[Len(calls'[c].toolLog)] =
                             [tool |-> tool, state |-> "success",
                              strategy |-> strategyName,
                              url |-> ParseOutput(tool, strategyName, o.stdout)]
                       /\ calls'[c].work.kind = "fulfilled"
                       /\ calls'[c].work.value.downloadUrl =
                             ParseOutput(tool, strategyName, o.stdout)
          /\ calls[c].pc \in {"caching", "settled"}
                => /\ calls'[c].pc \in {"caching", "settled", "done"}
                   /\ calls'[c].invocations = calls[c].invocations]_vars

\* yt-dlp's first strategy gave no URL and its second strategy gave one: the
\* result names the second strategy.
SecondStrategyWon ==
    \E c \in CallIds :
        LET log == calls[c].toolLog
        IN  /\ calls[c].pc = "caching"
            /\ Len(log) = 1
            /\ log[1].state = "success"
            /\ log[1].strategy = Strategies("yt-dlp")[2]
            /\ calls[c].invocations = 2
            /\ metrics.strategiesUsed["yt-dlp"].successes = 1

\* ------------------------------------------------------------------- C8
\* The delay for domain d at the instant of its last recorded failure.
DelayAtLastFailure(d) ==
    getBackoffDelay([World EXCEPT !.now = domainFailures[d].lastFailure], d)

BackoffOnlyOnRateLimit ==
    [][\A c \in CallIds :
          (calls'[c].lastResult # calls[c].lastResult /\ calls'[c].lastResult # Null)
          => IF calls'[c].lastResult.errorCategory = "rate_limit"
             THEN /\ domainFailures'["instagram.com"] # Null
                  /\ domainFailures'["instagram.com"].consecutiveFailures =
                        1 + (IF domainFailures["instagram.com"] = Null THEN 0
                             ELSE domainFailures["instagram.com"].consecutiveFailures)
                  /\ domainFailures'["test.com"] = domainFailures["test.com"]
             ELSE domainFailures' = domainFailures]_vars

\* In one orchestration yt-dlp has thrown and gallery-dl has then been rate
\* limited: the count stands at one.
RateLimitedAfterThrow ==
    \E c \in CallIds :
        /\ Len(calls[c].toolLog) = 2
        /\ calls[c].toolLog[1].state = "exception"
        /\ calls[c].lastResult # Null
        /\ calls[c].lastResult.tool = "gallery-dl"
        /\ calls[c].lastResult.errorCategory = "rate_limit"
        /\ domainFailures["instagram.com"] # Null
        /\ domainFailures["instagram.com"].consecutiveFailures = 1

OutcomeNamesToolAndStrategy ==
    \A c \in CallIds :
        (calls[c].work.kind = "fulfilled" /\ calls[c].pc \in {"caching", "settled"})
        => LET m == calls[c].work.value.metadata
               e == calls[c].toolLog[Len(calls[c].toolLog)]
           IN  /\ {"tool", "strategy", "duration", "attemptCount"} \subseteq DOMAIN m
               /\ m.tool = e.tool
               /\ m.strategy = e.strategy
               /\ m.attemptCount = calls[c].tool

\* ------------------------------------------------------------------ C13
\* C13: a lookup that the store answers with a text gives the record the text
\* parses to, or for a text that does not parse the legacy record whose
\* downloadUrl is the whole text and whose tool is 'unknown'; whatever the
\* text, the download then returns success with cached=true and that
\* downloadUrl, and no tool runs.
StoredTextIsAHit ==
    [][\A d \in CallIds :
          /\ (/\ calls[d].pc = "idle"
              /\ calls'[d].pc = "lookup"
              /\ ~calls'[d].getFault
              /\ cache[CacheKeyOf(calls'[d].raw)] # Null)
             => LET stored == cache[CacheKeyOf(calls'[d].raw)]
                    got == calls'[d].looked
                IN  /\ (stored.kind = "json" /\ stored.fields \notin {Null, JsFalse})
                          => got = stored.fields
                    /\ stored.kind = "text"
                          => (got.downloadUrl = stored.text /\ got.tool = "unknown")
                    /\ Truthy(got)
          /\ (/\ calls[d].pc = "lookup"
              /\ calls[d].looked # Null
              /\ calls'[d] # calls[d])
             => /\ calls'[d].pc = "done"
                /\ calls'[d].result.success
                /\ calls'[d].result.cached
                /\ calls'[d].invocations = 0]_vars

\* ------------------------------------------------------------------ C14
\* The status hint of each category.
StatusOf ==
    [c \in {"invalid_url", "rate_limit", "authentication", "not_found", "timeout", "unknown"}
        |-> CASE c = "invalid_url" -> 400
              [] c = "rate_limit" -> 429
              [] c = "authentication" -> 403
              [] c = "not_found" -> 404
              [] c = "timeout" -> 408
              [] c = "unknown" -> 500]

\* C14: a failure outcome has one of the six categories and the status hint
\* of its category (400, 429, 403, 404, 408, 500); the HTTP layer answers a
\* failure with that status and a success with 200.
StatusFollowsCategory ==
    probe.stage = "responded" =>
        IF probe.outcome.success
        THEN probe.http = 200
        ELSE /\ probe.outcome.category \in DOMAIN StatusOf
             /\ probe.outcome.statusCode = StatusOf[probe.outcome.category]
             /\ probe.http = StatusOf[probe.outcome.category]

\* A timeout has been answered with 408.
TimeoutAnswered408 ==
    /\ probe.stage = "responded"
    /\ ~probe.outcome.success
    /\ probe.outcome.category = "timeout"
    /\ probe.http = 408

\* ------------------------------------------------------------------ C15
\* C15: for every error, yt-dlp's classifier, gallery-dl's classifier and the
\* orchestrator's classifier give the same category.
ClassifiersAgree ==
    (probe.stage = "outcome" /\ "yt" \in DOMAIN probe)
    => /\ probe.yt = probe.gd
       /\ probe.gd = probe.outcome.category


\* --------------------------------------------------------------- C16
PostStyle(raw) == ToLower(Trim(raw).segs[1]) \in {"p", "reel", "reels"}

Respelled(raw, spelling) == [Trim(raw) EXCEPT !.segs[1] = spelling]

\* C16: for every valid post-style identifier, normalizing and deriving the
\* key once more from the normalized identifier changes neither, and the key
\* is post_<id>, the same under the /p/, /reel/ and /reels/ spellings of the
\* identifier.
PostKeyCanonical ==
    (probe.stage = "processed" /\ PostStyle(probe.raw)) =>
        /\ probe.again = probe.normalizedUrl
        /\ probe.keyAgain = probe.cacheKey
        /\ probe.cacheKey = <<"post", Trim(probe.raw).segs[2]>>
        /\ \A spelling \in {"p", "reel", "reels"} :
              CacheKeyOf(Respelled(probe.raw, spelling)) = probe.cacheKey

\* --------------------------------------------------------------- C17
StoryStyle(raw) ==
    /\ ToLower(Trim(raw).segs[1]) = "stories"
    /\ Len(Trim(raw).segs) >= 3
    /\ Trim(raw).segs[3] # ""

\* C17: every valid story identifier with an owner and a story id is left as
\* it is by the normalization, is classified as a story and gets the key
\* story_<owner>_<storyId>, whatever the owner is called.
StoryKept ==
    (probe.stage = "processed" /\ StoryStyle(probe.raw)) =>
        /\ probe.normalizedUrl = Trim(probe.raw)
        /\ probe.urlType = "story"
        /\ probe.cacheKey = <<"story", Trim(probe.raw).segs[2], Trim(probe.raw).segs[3]>>

\* --------------------------------------------------------------- C18
StripWww(host) == IF host = "www.instagram.com" THEN "instagram.com" ELSE host

\* What the identifier has to look like: http or https, instagram.com with or
\* without www., one of the four path kinds and a non-empty first segment
\* after it, in any letter case.
WellFormed(text) ==
    /\ ToLower(text.scheme) \in {"http", "https"}
    /\ StripWww(ToLower(text.host)) = "instagram.com"
    /\ \E kind \in {"p", "reel", "reels", "stories"} :
          /\ Len(text.segs) >= 2
          /\ ToLower(text.segs[1]) = kind
          /\ text.segs[2] # ""

\* C18: the validation accepts an input exactly when it is a string whose
\* trimmed text is well formed; another host, a text that is no URL and a
\* value that is no string are refused.
ValidationExact ==
    (probe.stage \in {"processed", "refused"}) =>
        ((probe.stage = "processed") <=>
            (IsString(probe.raw) /\ WellFormed(Trim(probe.raw))))

\* A padded identifier in capitals was accepted.
PaddedCapitalsAccepted ==
    /\ probe.stage = "processed"
    /\ "pad" \in DOMAIN probe.raw
    /\ probe.raw.scheme = "HTTPS"
    /\ probe.raw.host = "INSTAGRAM.COM"
    /\ probe.raw.segs = <<"STORIES", "user", "123456">>

\* --------------------------------------------------------------- C19
\* C19: an entry of the in-flight map belongs to an orchestration of that key
\* which has not returned yet, be it on its way to success or to failure; once
\* every call has returned the map is empty.
EntriesEndWithOrchestration ==
    /\ \A k \in Keys :
          activeRequests[k] # 0 =>
              /\ calls[activeRequests[k]].role = "owner"
              /\ KeyOfCall(activeRequests[k]) = k
              /\ calls[activeRequests[k]].pc \in
                    {"backoff", "exec", "delay", "caching", "settled"}
    /\ (\A c \in CallIds : calls[c].pc \in {"idle", "done"}) =>
          (\A k \in Keys : activeRequests[k] = 0)

\* One orchestration has failed after running its tools and one has
\* succeeded, both have returned, and the map is empty.
EmptyAfterFailureAndSuccess ==
    /\ \E c, d \in CallIds :
          /\ calls[c].pc = "done" /\ calls[c].role = "owner"
          /\ calls[c].work.kind = "rejected" /\ calls[c].invocations > 0
          /\ calls[d].pc = "done" /\ calls[d].role = "owner"
          /\ calls[d].work.kind = "fulfilled"
    /\ \A k \in Keys : activeRequests[k] = 0

\* --------------------------------------------------------------- C20
\* A call that has an entry of its own in the in-flight map and is suspended
\* in its first tool invocation.
SuspendedOwner(c) ==
    /\ calls[c].pc = "exec"
    /\ calls[c].invocations = 1
    /\ activeRequests[KeyOfCall(c)] = c

\* C20: a call waits only for an orchestration of its own key: whoever it
\* has joined owns that key, and it starts to wait only when its own key has
\* an entry, whatever entries other keys have.
WaitsOnlyOnOwnKey ==
    /\ \A c \in CallIds :
          calls[c].role = "waiter" =>
              /\ calls[c].joined # 0
              /\ calls[calls[c].joined].role = "owner"
              /\ KeyOfCall(calls[c].joined) = KeyOfCall(c)
    /\ \A c \in CallIds :
          (calls[c].pc = "lookup" /\ ~Truthy(calls[c].looked)
           /\ activeRequests[KeyOfCall(c)] = 0)
              => ~ENABLED (AfterLookup(c) /\ calls'[c].role = "waiter")

\* While the call for one key is suspended in its first tool invocation, a
\* call for another key has registered its own entry, run its tools and
\* returned its download.
OtherKeyRanMeanwhile ==
    \E c, d \in CallIds :
        /\ SuspendedOwner(c)
        /\ calls[d].pc = "done"
        /\ KeyOfCall(d) # KeyOfCall(c)
        /\ calls[d].role = "owner"
        /\ c \in calls[d].peers
        /\ calls[d].invocations > 0
        /\ calls[d].result.success

\* --------------------------------------------------------------- C21
\* C21: once every call made so far has returned, totalRequests is the number
\* of calls and each call is counted in exactly one of cacheHits,
\* successfulDownloads and failedDownloads.
MetricsAccounting ==
    (\A c \in CallIds : calls[c].pc \in {"idle", "done"}) =>
        /\ metrics.totalRequests = Cardinality({c \in CallIds : calls[c].pc = "done"})
        /\ metrics.cacheHits + metrics.successfulDownloads + metrics.failedDownloads
             = metrics.totalRequests

\* --------------------------------------------------------------- C22
\* The result of an execute whose last error was a process killed at its
\* timeout.
EndedInTimeout(res) ==
    /\ res # Null
    /\ "cause" \in DOMAIN res
    /\ res.cause # Null
    /\ "killed" \in DOMAIN res.cause

\* C22: a tool whose last error was an invocation that ran into its timeout
\* reports the category timeout, and a call whose chain failed with that as
\* its last error returns the category timeout with status 408.
TimeoutIsReported ==
    \A c \in CallIds :
        /\ EndedInTimeout(calls[c].lastResult)
              => calls[c].lastResult.errorCategory = "timeout"
        /\ (calls[c].pc = "done" /\ calls[c].role = "owner"
             /\ calls[c].work.kind = "rejected" /\ EndedInTimeout(calls[c].work.cause))
              => /\ calls[c].result.category = "timeout"
                 /\ calls[c].result.statusCode = 408

\* --------------------------------------------------------------- C23
LastState(log) == log[Len(log)].state

\* C23: inside one execute the strategies are invoked one after the other in
\* the order of the tool's list: an invocation is the first strategy after
\* applyBackoff or the successor of the strategy that has just ended, and
\* execute ends before its last strategy only with a URL (or an exception).
StrategiesInOrder ==
    [][\A c \in CallIds :
        /\ (calls'[c].invocations # calls[c].invocations) =>
              /\ calls'[c].invocations = calls[c].invocations + 1
              /\ calls'[c].strat = calls[c].strat + 1
              /\ calls'[c].pc = "exec"
              /\ IF calls[c].strat = 0 THEN calls[c].pc = "backoff"
                 ELSE calls[c].pc \in {"exec", "delay"}
        /\ (calls'[c].strat # calls[c].strat) =>
              \/ calls'[c].invocations = calls[c].invocations + 1
              \/ /\ calls'[c].strat = 0
                 /\ calls[c].pc = "exec"
                 /\ \/ LastState(calls'[c].toolLog) \in {"success", "exception"}
                    \/ /\ LastState(calls'[c].toolLog) = "failure"
                       /\ calls[c].strat = Len(Strategies(ToolOf(World, c)))
    ]_vars

\* The last strategy of the second tool is running as the seventh invocation
\* of its call.
SeventhInvocationRunning ==
    \E c \in CallIds :
        /\ calls[c].pc = "exec"
        /\ calls[c].tool = 2
        /\ Strategies(ToolOf(World, c))[calls[c].strat] = "simple_download"
        /\ calls[c].invocations = 7

\* --------------------------------------------------------------- C24
\* The invocations one orchestration can make: every strategy of every tool.
MaxInvocations ==
    Len(Strategies(orchestratorStrategies[1])) + Len(Strategies(orchestratorStrategies[2]))

\* C24: an orchestration executes each tool at most once and makes at most
\* seven invocations; when the last tool has failed the orchestration ends in
\* a failure, and a call that has ended makes no further invocation.
NoRetries ==
    [][\A c \in CallIds :
        /\ calls'[c].invocations <= MaxInvocations
        /\ \A i, j \in 1..Len(calls'[c].toolLog) :
              calls'[c].toolLog[i].tool = calls'[c].toolLog[j].tool => i = j
        /\ (calls[c].pc = "exec" /\ calls[c].tool = Len(orchestratorStrategies)
             /\ LastState(calls'[c].toolLog) \in {"failure", "exception"})
              => /\ calls'[c].pc = "settled"
                 /\ calls'[c].work.kind = "rejected"
        /\ (calls[c].pc \in {"settled", "done"})
              => /\ calls'[c].pc \in {"settled", "done"}
                 /\ calls'[c].invocations = calls[c].invocations
        /\ (calls'[c].pc = "done" /\ calls'[c].work # Null
             /\ calls'[c].work.kind = "rejected")
              => ~calls'[c].result.success
    ]_vars

\* A call has returned a failure after seven invocations.
ExhaustedAfterSeven ==
    \E c \in CallIds :
        /\ calls[c].pc = "done"
        /\ calls[c].role = "owner"
        /\ calls[c].invocations = MaxInvocations
        /\ ~calls[c].result.success

\* --------------------------------------------------------------- C25
\* C25: every download call that has been made returns in the end, the calls
\* waiting for another call's orchestration included.
EveryCallReturns ==
    \A c \in CallIds : (calls[c].pc # "idle") ~> (calls[c].pc = "done")

\* A call that waited for an orchestration which failed has returned the
\* failure.
WaiterReturnedFailure ==
    \E c \in CallIds :
        /\ calls[c].pc = "done"
        /\ calls[c].role = "waiter"
        /\ ~calls[c].result.success

\* --------------------------------------------------------------- C26
Categories == {"invalid_url", "rate_limit", "authentication", "not_found", "timeout", "unknown"}

\* C26: when a tool's execute throws, the orchestration notes the failure
\* under that tool's name and goes on to the next tool, or, after the last
\* tool, ends in a failure; and the call returns a failure record with a
\* category and a status, it is never rejected.
ExceptionDoesNotAbort ==
    [][\A c \in CallIds :
        /\ (calls[c].pc = "exec" /\ LastState(calls'[c].toolLog) = "exception") =>
              /\ calls'[c].lastResult # Null
              /\ calls'[c].lastResult.tool = ToolOf(World, c)
              /\ calls'[c].lastResult.errorCategory = "exception"
              /\ IF calls[c].tool < Len(orchestratorStrategies)
                 THEN /\ calls'[c].pc = "backoff"
                      /\ calls'[c].tool = calls[c].tool + 1
                 ELSE /\ calls'[c].pc = "settled"
                      /\ calls'[c].work.kind = "rejected"
        /\ (calls[c].pc # "done" /\ calls'[c].pc = "done"
             /\ calls'[c].work # Null /\ calls'[c].work.kind = "rejected") =>
              /\ ~calls'[c].result.success
              /\ calls'[c].result.category \in Categories
              /\ calls'[c].result.statusCode \in {400, 429, 403, 404, 408, 500}
    ]_vars

\* Both tools have thrown in their first invocation and the call has
\* returned a failure.
BothToolsThrew ==
    \E c \in CallIds :
        /\ calls[c].pc = "done"
        /\ calls[c].role = "owner"
        /\ calls[c].invocations = 2
        /\ calls[c].work.kind = "rejected"
        /\ calls[c].work.cause.tool = "gallery-dl"
        /\ calls[c].work.cause.errorCategory = "exception"
        /\ ~calls[c].result.success

\* --------------------------------------------------------------- C27
\* C27: inside one execute a strategy that is not the first is invoked only
\* when the delay after its predecessor has elapsed, whether the predecessor
\* failed or exited with no usable URL; and no delay follows the last
\* strategy of a tool.
DelayBetweenStrategies ==
    [][\A c \in CallIds :
        /\ (calls[c].strat > 0 /\ calls'[c].strat = calls[c].strat + 1)
              => calls[c].pc = "delay"
        /\ (calls'[c].pc = "delay")
              => calls'[c].strat < Len(Strategies(ToolOf(World, c)))
    ]_vars

\* --------------------------------------------------------------- C28
\* C28: execute keeps the error of the last strategy that ended in an error
\* (none at its start); when the last strategy has ended without a URL it
\* returns success = false, strategy all_failed, the names of all its
\* strategies, and the classification of that error, unknown when there is
\* none.
AllFailedResult ==
    [][\A c \in CallIds :
        /\ (calls[c].pc = "backoff" /\ calls'[c].pc = "exec") => calls'[c].lastError = Null
        /\ \A o \in Outcomes, fault \in BOOLEAN :
              StrategyExit(c, o, fault) =>
                LET tool == ToolOf(World, c)
                    last == IF o.kind = "error" THEN o.err ELSE calls[c].lastError
                IN  /\ (calls'[c].pc \in {"exec", "delay"}) => calls'[c].lastError = last
                    /\ (LastState(calls'[c].toolLog) = "failure") =>
                          /\ calls[c].strat = Len(Strategies(tool))
                          /\ calls'[c].lastResult.success = FALSE
                          /\ calls'[c].lastResult.tool = tool
                          /\ calls'[c].lastResult.strategy = "all_failed"
                          /\ calls'[c].lastResult.metadata.strategiesTried = Strategies(tool)
                          /\ calls'[c].lastResult.errorCategory = categorizeError(tool, last)
                          /\ (last = Null) => calls'[c].lastResult.errorCategory = "unknown"
    ]_vars

\* yt-dlp has returned its all_failed result with the category of an error
\* met on the way, and the orchestration is about to run gallery-dl.
YtDlpAllFailedClassified ==
    \E c \in CallIds :
        /\ calls[c].pc = "backoff"
        /\ calls[c].tool = 2
        /\ calls[c].lastResult # Null
        /\ calls[c].lastResult.strategy = "all_failed"
        /\ Len(calls[c].lastResult.metadata.strategiesTried) = 4
        /\ calls[c].lastResult.errorCategory = "authentication"

\* --------------------------------------------------------------- C29
\* C29: a tool execution that follows a sleep in applyBackoff begins at an
\* instant at which no backoff delay is owed for instagram.com, whatever
\* other orchestrations have recorded in the meantime.
BackoffHonoured ==
    [][\A c \in CallIds :
        (calls[c].pc = "backoff" /\ calls'[c].pc = "exec"
         /\ calls[c].wake > calls[c].asleepSince)
            => getBackoffDelay(World, "instagram.com") = 0
    ]_vars

\* --------------------------------------------------------------- C30
\* A tool of call c returns its all_failed result with the category
\* rate_limit in this step.
RateLimitedNow(c) ==
    /\ calls[c].pc = "exec"
    /\ LastState(calls'[c].toolLog) = "failure"
    /\ calls'[c].lastResult.errorCategory = "rate_limit"

\* C30: a success of any tool deletes the entry of instagram.com, whoever
\* recorded the failures in it; the entry comes into being and grows by one
\* with each rate-limit failure and in no other way, it goes away only by a
\* success, and while it is there its count is at least one.
SuccessRecovery ==
    [][LET old == domainFailures["instagram.com"]
           new == domainFailures'["instagram.com"]
           succeeded == metrics'.successfulDownloads # metrics.successfulDownloads
           limited == \E c \in CallIds : RateLimitedNow(c)
       IN  /\ succeeded => new = Null
           /\ limited =>
                 /\ new # Null
                 /\ new.consecutiveFailures =
                       (IF old = Null THEN 0 ELSE old.consecutiveFailures) + 1
           /\ (new # old) => (succeeded \/ limited)
           /\ (new # Null) => new.consecutiveFailures >= 1
           /\ domainFailures'["test.com"] = domainFailures["test.com"]
    ]_vars

\* gallery-dl has succeeded in a call whose yt-dlp was rate limited, while
\* another orchestration that was rate limited too is still on its way: the
\* entry is gone.
RecoveredAfterOwnAndOtherFailures ==
    \E c, d \in CallIds :
        /\ c # d
        /\ calls[c].pc = "caching"
        /\ Len(calls[c].toolLog) = 2
        /\ calls[c].lastResult # Null
        /\ calls[c].lastResult.errorCategory = "rate_limit"
        /\ calls[d].pc \in {"backoff", "exec", "delay"}
        /\ calls[d].lastResult # Null
        /\ calls[d].lastResult.errorCategory = "rate_limit"
        /\ domainFailures["instagram.com"] = Null

\* ------------------------------------------------------------------ C31
\* The number of consecutive failures on record for domain d.
FailureCount(d) ==
    IF domainFailures[d] = Null THEN 0 ELSE domainFailures[d].consecutiveFailures

\* C31: recordFailure and recordSuccess are atomic and local to their domain:
\* in every interleaving of calls for two domains, each recordFailure for d
\* raises the count of d by exactly one, each recordSuccess for d sets it to
\* zero, nothing else changes a count, and a call for d leaves the entry and
\* the delay of every other domain as they were; so the count of d is the
\* number of recordFailure calls for d since its last recordSuccess.
BackoffUpdatesAtomic ==
    [][\A d \in Domains :
          /\ UnitRecordFailure(d) =>
                /\ FailureCount(d)' = FailureCount(d) + 1
                /\ \A e \in Domains \ {d} :
                      /\ domainFailures'[e] = domainFailures[e]
                      /\ getBackoffDelay(World, e)' = getBackoffDelay(World, e)
          /\ UnitRecordSuccess(d) =>
                /\ FailureCount(d)' = 0
                /\ \A e \in Domains \ {d} :
                      /\ domainFailures'[e] = domainFailures[e]
                      /\ getBackoffDelay(World, e)' = getBackoffDelay(World, e)
          /\ FailureCount(d)' # FailureCount(d) =>
                (UnitRecordFailure(d) \/ UnitRecordSuccess(d))]_vars

\* Failures of the two domains have been recorded in turn, at different
\* instants: three stand for test.com and two for instagram.com.
InterleavedFailureCounts ==
    /\ FailureCount("test.com") = 3
    /\ FailureCount("instagram.com") = 2
    /\ domainFailures["test.com"].lastFailure < domainFailures["instagram.com"].lastFailure
    /\ getBackoffDelay(World, "test.com") > 0
    /\ getBackoffDelay(World, "instagram.com") > 0

\* ------------------------------------------------------------------ C32
\* Call c's tool returns success in this step: the only place of a write.
ToolSuccessStep(c) == calls[c].pc = "exec" /\ calls'[c].pc = "caching"

\* C32: every step of a download other than the one in which a tool of its
\* orchestration returned success leaves the whole store as it was, so a
\* download that ends in failure and one answered from the cache change
\* nothing in it (each has sent the store one command, its lookup); the
\* record of a key changes only by a tool success of an orchestration for
\* that key or by the store's own expiry; no step of the core removes a
\* record.
StoreFrame ==
    [][/\ \A c \in CallIds :
             (calls'[c] # calls[c] /\ ~ToolSuccessStep(c)) => cache' = cache
       /\ \A k \in Keys :
             cache'[k] # cache[k] =>
                IF calls' = calls
                THEN cache'[k] = Null
                ELSE /\ cache'[k] # Null
                     /\ \E c \in CallIds : ToolSuccessStep(c) /\ KeyOfCall(c) = k
       /\ \A c \in CallIds :
             (/\ calls'[c].pc = "done"
              /\ ValidCall(c)
              /\ (~calls'[c].result.success \/ calls'[c].result.cached))
             => calls'[c].storeOps = 1]_vars

\* One download was answered from the record the store held and another, whose
\* lookup failed, ended in failure after all seven invocations: the record is
\* still the one the store started with.
FailureAndHitLeftRecord ==
    \E c, d \in CallIds :
        /\ calls[c].pc = "done" /\ calls[d].pc = "done"
        /\ calls[c].raw = PostABC /\ calls[d].raw = ReelABC
        /\ ~calls[c].result.success
        /\ calls[c].invocations = MaxInvocations
        /\ calls[d].result.success
        /\ calls[d].result.cached
        /\ cache[<<"post", "ABC123">>] = LegacyText

\* ------------------------------------------------------------------ C33
\* C33: a fault of the store never reaches the caller. A call whose lookup
\* failed is treated as one that found nothing, whatever the store holds: it
\* goes into preventStampede, is never answered from the cache, and as owner
\* of an identifier the tools handle it returns only after a tool has been
\* invoked. A call whose cache write failed after a tool's success still
\* holds and returns that success with the extracted URL.
StoreFaultsAbsorbed ==
    \A c \in CallIds :
        /\ (calls[c].getFault /\ calls[c].pc # "lookup") =>
              /\ calls[c].role \in {"owner", "waiter"}
              /\ calls[c].pc = "done" =>
                    /\ calls[c].result.success => ~calls[c].result.cached
                    /\ (calls[c].role = "owner" /\ canHandle(normalizeUrl(calls[c].raw)))
                       => calls[c].invocations >= 1
        /\ calls[c].setFault =>
              /\ calls[c].work.kind = "fulfilled"
              /\ calls[c].work.value.success
              /\ calls[c].work.value.downloadUrl \in {U1, U2}
              /\ calls[c].pc = "done" =>
                    /\ calls[c].result.success
                    /\ ~calls[c].result.cached
                    /\ calls[c].result.downloadUrl = calls[c].work.value.downloadUrl

\* Both faults in one download: the lookup failed, and so did the write after
\* the tool's success; the download returned the URL, and the store holds no
\* record for the key.
SucceededDespiteBothFaults ==
    \E c \in CallIds :
        /\ calls[c].pc = "done"
        /\ calls[c].getFault
        /\ calls[c].setFault
        /\ calls[c].result.success
        /\ calls[c].result.downloadUrl = U2
        /\ cache[KeyOfCall(c)] = Null
        /\ \A d \in CallIds \ {c} : calls[d].pc = "idle"

\* ------------------------------------------------------------------ C34
\* Call c owns an orchestration in which a tool has succeeded and the cache
\* write has been sent.
OrchestrationSucceeded(c) ==
    /\ calls[c].role = "owner"
    /\ calls[c].pc \in {"caching", "settled", "done"}
    /\ calls[c].work.kind = "fulfilled"

\* Call c's in-flight entry is gone.
Deregistered(c) == calls[c].pc = "done" /\ activeRequests[KeyOfCall(c)] # c

\* Call d sends its cache lookup, for the key of call c, in this step.
StartsLookupFor(d, c) ==
    /\ c # d
    /\ calls[d].pc = "idle"
    /\ calls'[d].pc = "lookup"
    /\ CacheKeyOf(calls'[d].raw) = KeyOfCall(c)

\* C34 as stated: a successful orchestration has its record in the store from
\* the cache write on, so also when its in-flight entry is removed and at
\* every instant after that within the record's lifetime; a call that starts
\* its lookup after the deregistration gets a hit.
RecordBeforeDeregistration ==
    [][\A c \in CallIds :
          /\ OrchestrationSucceeded(c)' => cache'[KeyOfCall(c)] # Null
          /\ \A d \in CallIds :
                (OrchestrationSucceeded(c) /\ Deregistered(c) /\ StartsLookupFor(d, c))
                => Truthy(calls'[d].looked)]_vars

\* C34: the same, for an orchestration whose cache write did not fail and for
\* a later call whose lookup does not fail.
RecordBeforeDeregistrationUnlessStoreFails ==
    [][\A c \in CallIds :
          /\ (OrchestrationSucceeded(c)' /\ ~calls'[c].setFault)
             => /\ cache'[KeyOfCall(c)] # Null
                /\ cache'[KeyOfCall(c)].kind = "json"
                /\ cache'[KeyOfCall(c)].fields.downloadUrl \in {U1, U2}
          /\ \A d \in CallIds :
                (/\ OrchestrationSucceeded(c) /\ ~calls[c].setFault
                 /\ Deregistered(c)
                 /\ StartsLookupFor(d, c)
                 /\ ~calls'[d].getFault)
                => /\ Truthy(calls'[d].looked)
                   /\ calls'[d].looked.downloadUrl \in {U1, U2}]_vars

\* A successful orchestration has deregistered, and a call started after
\* that has found its record.
HitAfterDeregistration ==
    \E c, d \in CallIds :
        /\ c # d
        /\ OrchestrationSucceeded(c) /\ Deregistered(c) /\ ~calls[c].setFault
        /\ c \in calls[d].doneAtStart
        /\ calls[d].pc = "lookup"
        /\ ~calls[d].getFault
        /\ KeyOfCall(d) = KeyOfCall(c)
        /\ Truthy(calls[d].looked)
        /\ calls[d].looked.downloadUrl = calls[c].result.downloadUrl
        /\ activeRequests = [k \in Keys |-> 0]

\* ------------------------------------------------------------------ C35
\* What an identifier denotes: the post of an id, whichever of /p/, /reel/,
\* /reels/ spells it, or the stories of an owner, one of them or all.
Resource(url) ==
    IF ToLower(url.segs[1]) = "stories"
    THEN <<"story">> \o SubSeq(url.segs, 2, Len(url.segs))
    ELSE <<"post", url.segs[2]>>

\* C35: two valid identifiers that denote different resources get different
\* cache keys.
KeysSeparateResources ==
    (probe # Null /\ probe.stage = "keyed")
    => (Resource(probe.a) # Resource(probe.b) => probe.keyA # probe.keyB)

\* ------------------------------------------------------------------ C36
\* Line i of the output starts with http:// or https://, and it also passes
\* the video heuristic.
HttpLineAt(stdout, i) == stdout[i].kind = "url"

VideoLineAt(stdout, i) == HttpLineAt(stdout, i) /\ stdout[i].url \in {U1, U2}

\* C36: of every sequence of output lines, yt-dlp's parser returns the last
\* http(s) line and gallery-dl's returns the first http(s) line that passes
\* the video heuristic; each returns null exactly when no line qualifies.
LineModeParsing ==
    (probe # Null /\ probe.stage = "parsed") =>
        LET out == probe.stdout
            http == {i \in 1..Len(out) : HttpLineAt(out, i)}
            video == {i \in 1..Len(out) : VideoLineAt(out, i)}
        IN  /\ (probe.primary = NoUrl) <=> (http = {})
            /\ http # {} =>
                  \E i \in http : /\ \A j \in http : j <= i
                                   /\ probe.primary = out[i].url
            /\ (probe.fallback = NoUrl) <=> (video = {})
            /\ video # {} =>
                  \E i \in video : /\ \A j \in video : i <= j
                                    /\ probe.fallback = out[i].url

\* An output whose first http(s) line is a picture, followed by two video
\* lines: yt-dlp's parser gives the last line, gallery-dl's the second.
ParsersDisagree ==
    /\ probe # Null
    /\ probe.stage = "parsed"
    /\ probe.stdout = <<UrlLine(U3), UrlLine(U1), UrlLine(U2)>>
    /\ probe.primary = U2
    /\ probe.fallback = U1

\* ------------------------------------------------------------------ C37
\* C37: resetMetrics sets totalRequests, cacheHits, successfulDownloads,
\* failedDownloads and every tool's counters to zero (no tool has an entry any
\* more) and leaves the clock, the backoff state, the in-flight map, the store
\* and every call as they were; the two steps of getHealthStatus change
\* none of these, and the snapshot shows the counters as they are.
ResetAndSnapshotFrame ==
    [][/\ ResetMetrics =>
             /\ metrics'.totalRequests = 0
             /\ metrics'.cacheHits = 0
             /\ metrics'.successfulDownloads = 0
             /\ metrics'.failedDownloads = 0
             /\ \A t \in ToolNames : metrics'.strategiesUsed[t] = Null
             /\ UNCHANGED <<now, domainFailures, activeRequests, cache, calls>>
       /\ probe' # probe =>
             /\ UNCHANGED <<now, domainFailures, activeRequests, cache, metrics, calls>>
             /\ probe'.stage = "snapshot" =>
                   LET v == probe'.value
                   IN  /\ v.metrics.totalRequests = metrics.totalRequests
                       /\ \A t \in ToolNames :
                             IF metrics.strategiesUsed[t] = Null
                             THEN t \notin DOMAIN v.metrics.strategiesStats
                             ELSE /\ t \in DOMAIN v.metrics.strategiesStats
                                  /\ v.metrics.strategiesStats[t].attempts =
                                        metrics.strategiesUsed[t].attempts
                                  /\ v.metrics.strategiesStats[t].successes =
                                        metrics.strategiesUsed[t].successes
                                  /\ v.metrics.strategiesStats[t].failures =
                                        metrics.strategiesUsed[t].failures
                       /\ DOMAIN v.rateLimiting.domains =
                             {d \in Domains : domainFailures[d] # Null}]_vars

\* The metrics have been reset after a snapshot that counted two requests,
\* while one download is still running with a failure on record, its
\* in-flight entry set and the record of an earlier success in the store.
ResetDuringDownload ==
    \E c, d \in CallIds :
        /\ metrics = InitMetrics
        /\ probe # Null
        /\ probe.stage = "snapshot"
        /\ probe.value.metrics.totalRequests = 2
        /\ probe.value.metrics.successRate = 500
        /\ calls[c].pc = "done"
        /\ calls[c].result.success
        /\ cache[KeyOfCall(c)] # Null
        /\ calls[d].pc = "exec"
        /\ activeRequests[KeyOfCall(d)] = d
        /\ domainFailures["instagram.com"] # Null

\* ------------------------------------------------------------------ C38
\* A counter of tool t in the metrics m; a tool without an entry has zero.
ToolCount(m, t, field) ==
    IF m.strategiesUsed[t] = Null THEN 0 ELSE m.strategiesUsed[t][field]

\* The execute of call c's current tool ends in this step with state st.
ExecuteEnds(c, st) ==
    /\ calls[c].pc = "exec"
    /\ Len(calls'[c].toolLog) = Len(calls[c].toolLog)
    /\ LastState(calls'[c].toolLog) = st

\* C38: for every tool attempts = successes + failures, and the successes of
\* the tools add up to successfulDownloads, in every state, also across
\* resets; a step in which an execute returns a result adds one attempt to
\* its tool, with one success or one failure, and nothing to the other tool;
\* an execute that throws adds nothing; no other step but resetMetrics
\* changes a counter.
ToolCountersConsistent ==
    [][/\ \A t \in ToolNames :
             ToolCount(metrics', t, "attempts") =
                ToolCount(metrics', t, "successes") + ToolCount(metrics', t, "failures")
       /\ ToolCount(metrics', "yt-dlp", "successes")
            + ToolCount(metrics', "gallery-dl", "successes")
          = metrics'.successfulDownloads
       /\ \A c \in CallIds :
             LET tool == orchestratorStrategies[calls[c].tool]
                 other == CHOOSE t \in ToolNames : t # tool
             IN  /\ ExecuteEnds(c, "success") =>
                       /\ ToolCount(metrics', tool, "attempts")
                            = ToolCount(metrics, tool, "attempts") + 1
                       /\ ToolCount(metrics', tool, "successes")
                            = ToolCount(metrics, tool, "successes") + 1
                       /\ metrics'.strategiesUsed[other] = metrics.strategiesUsed[other]
                 /\ ExecuteEnds(c, "failure") =>
                       /\ ToolCount(metrics', tool, "attempts")
                            = ToolCount(metrics, tool, "attempts") + 1
                       /\ ToolCount(metrics', tool, "failures")
                            = ToolCount(metrics, tool, "failures") + 1
                       /\ metrics'.strategiesUsed[other] = metrics.strategiesUsed[other]
                 /\ ExecuteEnds(c, "exception") =>
                       metrics'.strategiesUsed = metrics.strategiesUsed
       /\ metrics'.strategiesUsed # metrics.strategiesUsed =>
             \/ ResetMetrics
             \/ \E c \in CallIds : ExecuteEnds(c, "success") \/ ExecuteEnds(c, "failure")
      ]_vars

\* yt-dlp has ended twice, once with a failure and once by throwing: it
\* counts one attempt, and gallery-dl, running for the second time, has one
\* success.
ThrowLeftUncounted ==
    \E c, d \in CallIds :
        /\ calls[c].pc = "done"
        /\ calls[c].result.success
        /\ calls[d].pc = "exec"
        /\ Len(calls[d].toolLog) = 2
        /\ calls[d].toolLog[1].state = "exception"
        /\ metrics.strategiesUsed["yt-dlp"] # Null
        /\ metrics.strategiesUsed["yt-dlp"].attempts = 1
        /\ metrics.strategiesUsed["yt-dlp"].failures = 1
        /\ metrics.strategiesUsed["gallery-dl"] # Null
        /\ metrics.strategiesUsed["gallery-dl"].successes = 1
        /\ metrics.successfulDownloads = 1
        /\ metrics.totalRequests = 2

\* ------------------------------------------------------------------ C39
\* C39: every strategy invocation of one execute call is built with the same
\* user agent, a member of the tool's pool; the strategies are built in their
\* order, and a success names that agent in its metadata.
OneUserAgentPerExecute ==
    (probe # Null /\ probe.stage \in {"running", "delay", "returned"}) =>
        LET pool == {userAgents(probe.tool)[i] : i \in 1..Len(userAgents(probe.tool))}
        IN  /\ Len(probe.built) >= 1
            /\ \A i \in 1..Len(probe.built) :
                  /\ probe.built[i].userAgent = probe.built[1].userAgent
                  /\ probe.built[i].userAgent \in pool
                  /\ probe.built[i].strategy = Strategies(probe.tool)[i]
            /\ (probe.stage = "returned" /\ probe.result.success)
               => probe.result.metadata.userAgent = probe.built[1].userAgent

\* An execute of yt-dlp has invoked its four strategies, all with the last
\* agent of the pool, and returned its all_failed result.
FourInvocationsOneAgent ==
    /\ probe # Null
    /\ probe.stage = "returned"
    /\ probe.tool = "yt-dlp"
    /\ ~probe.result.success
    /\ Len(probe.built) = 4
    /\ probe.built[1].userAgent = "Android 12 Pixel 6"
    /\ probe.built[4].userAgent = "Android 12 Pixel 6"

====
